---- MODULE Spec2Model ----
(***************************************************************************)
(* A model of jsirianni/cloudflare-go: the Cloudflare v4 client            *)
(* (cloudflare/client.go, cloudflare/dns.go), public IPv4 discovery        *)
(* (internal/netutil/ip.go) and the reconciliation flow of the CLI         *)
(* (cmd/cloudflare/main.go).                                               *)
(*                                                                         *)
(* A Go string is a sequence of tokens.  A token is a single character     *)
(* where the code looks at characters (" ", ".", "/", "?", "=", "&", ":",  *)
(* decimal digits) and an opaque word without such characters elsewhere    *)
(* ("zones", "client", "v4", "tok").  The empty string is << >>.           *)
(***************************************************************************)
EXTENDS Integers, Sequences, FiniteSets, TLC

\* ------------------------------------------------------------------ bounds
\* Process invocations (runs of the CLI) in one behaviour.
MaxRuns == 2
\* A records the provider holds for the name.
MaxRecords == 2
\* Library calls on one client in one behaviour.
MaxCalls == 2

\* ----------------------------------------------------------------- strings
Empty == << >>

RECURSIVE TrimLeft(_)
TrimLeft(s) ==
    IF s # Empty /\ Head(s) = " " THEN TrimLeft(Tail(s)) ELSE s

RECURSIVE TrimRight(_)
TrimRight(s) ==
    IF s # Empty /\ s[Len(s)] = " " THEN TrimRight(SubSeq(s, 1, Len(s) - 1)) ELSE s

\* strings.TrimSpace
TrimSpace(s) == TrimRight(TrimLeft(s))

\* strings.LastIndex(s, t) for a one-token t, 1-based; 0 when t does not occur.
LastIndex(s, t) ==
    LET hits == {i \in 1..Len(s) : s[i] = t}
    IN  IF hits = {} THEN 0 ELSE CHOOSE i \in hits : \A j \in hits : j <= i

\* Index of the first occurrence of t, 1-based; 0 when t does not occur.
FirstIndex(s, t) ==
    LET hits == {i \in 1..Len(s) : s[i] = t}
    IN  IF hits = {} THEN 0 ELSE CHOOSE i \in hits : \A j \in hits : i <= j

\* url.QueryEscape on the tokens the model uses: a space becomes "+", the
\* reserved characters are percent-encoded, everything else is kept.
QueryEscapeTok(t) ==
    CASE t = " " -> "+"
      [] t = "/" -> "%2F"
      [] t = "?" -> "%3F"
      [] t = "=" -> "%3D"
      [] t = "&" -> "%26"
      [] t = ":" -> "%3A"
      [] OTHER   -> t

QueryEscape(s) == [i \in 1..Len(s) |-> QueryEscapeTok(s[i])]

\* -------------------------------------------------------------------- URLs
\* net/url as the client uses it.  An absolute URL is <<scheme, "//", host>>
\* followed by the path tokens, e.g. <<"https:", "//", "api.cloudflare.com",
\* "/", "client", "/", "v4">>.

\* client.go:19
defaultBaseURL == <<"https:", "//", "api.cloudflare.com", "/", "client", "/", "v4">>
\* client.go:20
defaultUserAgent == <<"cloudflare-go/1.0">>

\* url.Parse: scheme and host when the text is absolute, then path and query.
\* A text that starts with ":" has no scheme in front of the colon and is
\* refused ("missing protocol scheme").
ParseURL(s) ==
    IF s # Empty /\ Head(s) = ":"
    THEN [ok |-> FALSE, Scheme |-> Empty, Host |-> Empty, Path |-> Empty, RawQuery |-> Empty]
    ELSE LET abs  == Len(s) >= 3 /\ s[2] = "//"
             rest == IF abs THEN SubSeq(s, 4, Len(s)) ELSE s
             q    == FirstIndex(rest, "?")
         IN  [ok       |-> TRUE,
              Scheme   |-> IF abs THEN <<s[1]>> ELSE Empty,
              Host     |-> IF abs THEN <<s[3]>> ELSE Empty,
              Path     |-> IF q = 0 THEN rest ELSE SubSeq(rest, 1, q - 1),
              RawQuery |-> IF q = 0 THEN Empty ELSE SubSeq(rest, q + 1, Len(rest))]

\* strings.Split(s, "/")
RECURSIVE SplitSlash(_)
SplitSlash(s) ==
    LET i == FirstIndex(s, "/")
    IN  IF i = 0 THEN <<s>>
        ELSE <<SubSeq(s, 1, i - 1)>> \o SplitSlash(SubSeq(s, i + 1, Len(s)))

\* The loop of url.resolvePath that removes dot segments: st is the text
\* written so far (it starts as "/") and whether no element was written yet.
RECURSIVE RemoveDots(_, _)
RemoveDots(elems, st) ==
    IF elems = << >> THEN st
    ELSE LET elem == Head(elems)
             str  == Tail(st.dst)
             idx  == LastIndex(str, "/")
             nxt  == CASE elem = <<".">> ->
                            [dst |-> st.dst, first |-> FALSE]
                      [] elem = <<"..">> ->
                            IF idx = 0
                            THEN [dst |-> <<"/">>, first |-> TRUE]
                            ELSE [dst |-> <<"/">> \o SubSeq(str, 1, idx - 1), first |-> st.first]
                      [] OTHER ->
                            [dst |-> st.dst \o (IF st.first THEN Empty ELSE <<"/">>) \o elem,
                             first |-> FALSE]
         IN  RemoveDots(Tail(elems), nxt)

\* url.resolvePath (RFC 3986, 5.2): a reference that does not start with "/"
\* replaces everything after the last "/" of the base path.
resolvePath(base, ref) ==
    LET full == IF ref = Empty THEN base
                ELSE IF Head(ref) # "/"
                     THEN SubSeq(base, 1, LastIndex(base, "/")) \o ref
                     ELSE ref
        elems == SplitSlash(full)
        last  == elems[Len(elems)]
        out   == RemoveDots(elems, [dst |-> <<"/">>, first |-> TRUE]).dst
        r     == IF last = <<".">> \/ last = <<"..">> THEN out \o <<"/">> ELSE out
    IN  IF full = Empty THEN Empty
        ELSE IF Len(r) > 1 /\ r[2] = "/" THEN Tail(r) ELSE r

\* (*URL).ResolveReference
ResolveReference(u, ref) ==
    IF ref.Scheme # Empty \/ ref.Host # Empty
    THEN [ref EXCEPT !.Scheme = IF ref.Scheme = Empty THEN u.Scheme ELSE ref.Scheme,
                     !.Path = resolvePath(ref.Path, Empty)]
    ELSE [ok       |-> TRUE,
          Scheme   |-> u.Scheme,
          Host     |-> u.Host,
          Path     |-> resolvePath(u.Path, ref.Path),
          RawQuery |-> IF ref.Path = Empty /\ ref.RawQuery = Empty
                       THEN u.RawQuery ELSE ref.RawQuery]

\* (*URL).String
URLString(u) ==
    u.Scheme
    \o (IF u.Host # Empty THEN <<"//">> \o u.Host ELSE Empty)
    \o (IF u.Path # Empty /\ Head(u.Path) # "/" /\ u.Host # Empty THEN <<"/">> ELSE Empty)
    \o u.Path
    \o (IF u.RawQuery # Empty THEN <<"?">> \o u.RawQuery ELSE Empty)

\* Client.buildURL, client.go:201-205
buildURL(c, p) == URLString(ResolveReference(c.baseURL, ParseURL(p)))

\* ------------------------------------------------------------ IP addresses
\* net.ParseIP, IP.To4 and IP.String as DiscoverIPv4ViaIpify uses them
\* (ip.go:77-81).  The text is a sequence of single characters.
DigitVal ==
    ("0" :> 0) @@ ("1" :> 1) @@ ("2" :> 2) @@ ("3" :> 3) @@ ("4" :> 4) @@
    ("5" :> 5) @@ ("6" :> 6) @@ ("7" :> 7) @@ ("8" :> 8) @@ ("9" :> 9)

HexVal ==
    DigitVal @@
    ("a" :> 10) @@ ("b" :> 11) @@ ("c" :> 12) @@ ("d" :> 13) @@ ("e" :> 14) @@ ("f" :> 15) @@
    ("A" :> 10) @@ ("B" :> 11) @@ ("C" :> 12) @@ ("D" :> 13) @@ ("E" :> 14) @@ ("F" :> 15)

IsDigit(ch) == ch \in DOMAIN DigitVal
IsHex(ch) == ch \in DOMAIN HexVal

BadFields == [ok |-> FALSE, fields |-> <<0, 0, 0, 0>>]

\* netip.parseIPv4Fields: the scan over s from position i with the state
\* (val, pos, digLen, fields) of the loop.
RECURSIVE ScanIPv4(_, _, _, _, _, _)
ScanIPv4(s, i, val, pos, digLen, fields) ==
    IF i > Len(s)
    THEN IF pos < 3 THEN BadFields
         ELSE [ok |-> TRUE, fields |-> [fields EXCEPT ![4] = val]]
    ELSE IF IsDigit(s[i])
         THEN IF digLen = 1 /\ val = 0 THEN BadFields
              ELSE LET v == val * 10 + DigitVal[s[i]]
                   IN  IF v > 255 THEN BadFields
                       ELSE ScanIPv4(s, i + 1, v, pos, digLen + 1, fields)
         ELSE IF s[i] = "."
              THEN IF i = 1 \/ i = Len(s) \/ s[i - 1] = "." THEN BadFields
                   ELSE IF pos = 3 THEN BadFields
                   ELSE ScanIPv4(s, i + 1, 0, pos + 1, 0, [fields EXCEPT ![pos + 1] = val])
              ELSE BadFields

parseIPv4Fields(s) == ScanIPv4(s, 1, 0, 0, 0, <<0, 0, 0, 0>>)

Zero16 == [i \in 1..16 |-> 0]
BadAddr == [ok |-> FALSE, ip |-> Zero16]

\* netip.AddrFrom4(...).As16(): the IPv4-mapped form ::ffff:a.b.c.d
From4(f) == [i \in 1..16 |-> IF i <= 10 THEN 0 ELSE IF i <= 12 THEN 255 ELSE f[i - 12]]

\* netip.parseIPv4
parseIPv4(s) ==
    LET r == parseIPv4Fields(s)
    IN  IF r.ok THEN [ok |-> TRUE, ip |-> From4(r.fields)] ELSE BadAddr

\* The hex number at the front of s: its length (off) and value (acc), and
\* whether it is refused (more than 4 digits).
RECURSIVE ScanHex(_, _, _)
ScanHex(s, off, acc) ==
    IF off < Len(s) /\ IsHex(s[off + 1])
    THEN IF off > 3 THEN [ok |-> FALSE, off |-> off, acc |-> acc]
         ELSE ScanHex(s, off + 1, acc * 16 + HexVal[s[off + 1]])
    ELSE [ok |-> TRUE, off |-> off, acc |-> acc]

\* Expanding the ellipsis once the groups are parsed (i bytes written).
ExpandEllipsis(ip, i, ellipsis) ==
    IF i < 16
    THEN IF ellipsis < 0 THEN BadAddr
         ELSE LET n == 16 - i
              IN  [ok |-> TRUE,
                   ip |-> [j \in 1..16 |->
                              IF j <= ellipsis THEN ip[j]
                              ELSE IF j <= ellipsis + n THEN 0
                              ELSE ip[j - n]]]
    ELSE IF ellipsis >= 0 THEN BadAddr
    ELSE [ok |-> TRUE, ip |-> ip]

\* The loop of netip.parseIPv6: s is the text left, i the bytes written.
RECURSIVE ScanIPv6(_, _, _, _)
ScanIPv6(s, i, ip, ellipsis) ==
    IF i >= 16
    THEN IF s # Empty THEN BadAddr ELSE ExpandEllipsis(ip, i, ellipsis)
    ELSE LET h == ScanHex(s, 0, 0)
         IN  IF ~h.ok \/ h.off = 0 THEN BadAddr
             ELSE IF h.off < Len(s) /\ s[h.off + 1] = "."
             THEN \* a trailing embedded IPv4 address
                  IF (ellipsis < 0 /\ i # 12) \/ i + 4 > 16 THEN BadAddr
                  ELSE LET v4 == parseIPv4Fields(s)
                       IN  IF ~v4.ok THEN BadAddr
                           ELSE ExpandEllipsis(
                                    [j \in 1..16 |->
                                        IF j > i /\ j <= i + 4 THEN v4.fields[j - i] ELSE ip[j]],
                                    i + 4, ellipsis)
             ELSE LET ip2  == [ip EXCEPT ![i + 1] = h.acc \div 256, ![i + 2] = h.acc % 256]
                      rest == SubSeq(s, h.off + 1, Len(s))
                  IN  IF rest = Empty THEN ExpandEllipsis(ip2, i + 2, ellipsis)
                      ELSE IF rest[1] # ":" \/ Len(rest) = 1 THEN BadAddr
                      ELSE IF rest[2] = ":"
                           THEN IF ellipsis >= 0 THEN BadAddr
                                ELSE IF Len(rest) = 2
                                     THEN ExpandEllipsis(ip2, i + 2, i + 2)
                                     ELSE ScanIPv6(SubSeq(rest, 3, Len(rest)), i + 2, ip2, i + 2)
                           ELSE ScanIPv6(Tail(rest), i + 2, ip2, ellipsis)

\* netip.parseIPv6; net.ParseIP refuses an address with a zone.
parseIPv6(s) ==
    IF FirstIndex(s, "%") # 0 THEN BadAddr
    ELSE IF Len(s) >= 2 /\ s[1] = ":" /\ s[2] = ":"
         THEN IF Len(s) = 2 THEN [ok |-> TRUE, ip |-> Zero16]
              ELSE ScanIPv6(SubSeq(s, 3, Len(s)), 0, Zero16, 0)
         ELSE ScanIPv6(s, 0, Zero16, -1)

\* net.ParseIP (netip.ParseAddr): the first "." or ":" decides the family.
ParseIP(s) ==
    LET marks == {i \in 1..Len(s) : s[i] \in {".", ":", "%"}}
        first == IF marks = {} THEN 0 ELSE CHOOSE i \in marks : \A j \in marks : i <= j
    IN  IF first = 0 THEN BadAddr
        ELSE IF s[first] = "." THEN parseIPv4(s)
        ELSE IF s[first] = ":" THEN parseIPv6(s)
        ELSE BadAddr

\* IP.To4: the last four bytes of an IPv4-mapped address, nil otherwise.
To4(ip) ==
    IF (\A i \in 1..10 : ip[i] = 0) /\ ip[11] = 255 /\ ip[12] = 255
    THEN [ok |-> TRUE, b |-> <<ip[13], ip[14], ip[15], ip[16]>>]
    ELSE [ok |-> FALSE, b |-> <<0, 0, 0, 0>>]

DigitChar == <<"0", "1", "2", "3", "4", "5", "6", "7", "8", "9">>

\* strconv.Itoa for a byte.
RECURSIVE Itoa(_)
Itoa(n) == IF n < 10 THEN <<DigitChar[n + 1]>> ELSE Itoa(n \div 10) \o <<DigitChar[(n % 10) + 1]>>

\* IP.String of an address for which To4 is not nil: dotted decimal.
IPv4String(b) == Itoa(b[1]) \o <<".">> \o Itoa(b[2]) \o <<".">> \o Itoa(b[3]) \o <<".">> \o Itoa(b[4])

\* ------------------------------------------------------------------ errors
\* The code returns plain error values; the model names them by the kind of
\* the return site.  status is the HTTP status an UpstreamStatus error carries.
NoErr == [kind |-> "nil", status |-> 0]
Err(kind) == [kind |-> kind, status |-> 0]
StatusErr(st) == [kind |-> "UpstreamStatus", status |-> st]

\* ctx.Err() of a context that is done.
CtxErr(ctx) == IF ctx = "deadline" THEN Err("DeadlineExceeded") ELSE Err("Canceled")
CtxDone(ctx) == ctx \in {"canceled", "deadline"}

\* ------------------------------------------------------------------ client
\* Options, client.go:48-64 (transport, TLS and timeout belong to the
\* environment of the model).
NoOptions ==
    [BaseURL |-> Empty, UserAgent |-> Empty, APIToken |-> Empty,
     GlobalKey |-> Empty, Email |-> Empty]

WithBaseURL(o, base) == [o EXCEPT !.BaseURL = base]
WithUserAgent(o, ua) == [o EXCEPT !.UserAgent = ua]
WithAPIToken(o, token) == [o EXCEPT !.APIToken = token]
WithGlobalKey(o, email, key) == [o EXCEPT !.Email = email, !.GlobalKey = key]

NoURL == [ok |-> FALSE, Scheme |-> Empty, Host |-> Empty, Path |-> Empty, RawQuery |-> Empty]

\* The nil *Client.
NoClient ==
    [authMode |-> "none", email |-> Empty, globalKey |-> Empty, apiToken |-> Empty,
     baseURL |-> NoURL, userAgent |-> Empty]

\* A New that takes options without credentials for the token variant.
NewWithoutMissingCheck(options) ==
    LET haveGlobal == options.Email # Empty /\ options.GlobalKey # Empty
        haveToken  == options.APIToken # Empty
        mode       == IF haveGlobal THEN "AuthGlobalKey" ELSE "AuthAPIToken"
        base       == IF options.BaseURL = Empty THEN defaultBaseURL ELSE options.BaseURL
        parsed     == ParseURL(base)
        userAgent  == IF TrimSpace(options.UserAgent) = Empty
                      THEN defaultUserAgent ELSE options.UserAgent
    IN  IF haveGlobal /\ haveToken THEN [c |-> NoClient, err |-> Err("InvalidArgument")]
        ELSE IF ~parsed.ok THEN [c |-> NoClient, err |-> Err("InvalidBaseURL")]
        ELSE [c |-> [authMode  |-> mode,
                     email     |-> options.Email,
                     globalKey |-> options.GlobalKey,
                     apiToken  |-> IF mode = "AuthAPIToken" THEN options.APIToken ELSE Empty,
                     baseURL   |-> parsed,
                     userAgent |-> userAgent],
              err |-> NoErr]

\* New, client.go:108-175
New(options) ==
    LET haveGlobal == options.Email # Empty /\ options.GlobalKey # Empty
        haveToken  == options.APIToken # Empty
        mode       == IF haveGlobal THEN "AuthGlobalKey" ELSE "AuthAPIToken"
        base       == IF options.BaseURL = Empty THEN defaultBaseURL ELSE options.BaseURL
        parsed     == ParseURL(base)
        userAgent  == IF TrimSpace(options.UserAgent) = Empty
                      THEN defaultUserAgent ELSE options.UserAgent
    IN  IF haveGlobal /\ haveToken THEN [c |-> NoClient, err |-> Err("InvalidArgument")]
        ELSE IF ~haveGlobal /\ ~haveToken THEN [c |-> NoClient, err |-> Err("InvalidArgument")]
        ELSE IF ~parsed.ok THEN [c |-> NoClient, err |-> Err("InvalidBaseURL")]
        ELSE [c |-> [authMode  |-> mode,
                     email     |-> options.Email,
                     globalKey |-> options.GlobalKey,
                     apiToken  |-> IF mode = "AuthAPIToken" THEN options.APIToken ELSE Empty,
                     baseURL   |-> parsed,
                     userAgent |-> userAgent],
              err |-> NoErr]

\* ---------------------------------------------------------------- requests
NoHeader ==
    [ContentType |-> Empty, UserAgent |-> Empty, Authorization |-> Empty,
     AuthEmail |-> Empty, AuthKey |-> Empty]

\* DNSRecord, dns.go:33-40
DNSRecord(id, name, content, ttl, proxied) ==
    [id |-> id, type |-> <<"A">>, name |-> name, content |-> content,
     ttl |-> ttl, proxied |-> proxied]

NoRecord == [id |-> Empty, type |-> Empty, name |-> Empty, content |-> Empty,
             ttl |-> 0, proxied |-> FALSE]

\* http.NewRequest: op names the operation that built the request.
NewRequest(op, method, url, payload) ==
    [op |-> op, method |-> method, url |-> url, header |-> NoHeader, body |-> payload]

NoRequest == NewRequest("none", "", Empty, NoRecord)

\* What the first half of an operation yields: an error before anything is
\* sent, or the request handed to the transport.
Refused(e) == [err |-> e, req |-> NoRequest]
Dispatched(r) == [err |-> NoErr, req |-> r]

\* A transport that does not look at the context before it connects.
httpDoWithoutCtx(ctx, req) == Dispatched(req)

\* http.Client.Do: the transport refuses a request whose context is already
\* done and returns the context's error without connecting.
httpDo(ctx, req) == IF CtxDone(ctx) THEN Refused(CtxErr(ctx)) ELSE Dispatched(req)

\* A do that sets a header for every credential field the client holds,
\* whatever its mode.
doEveryCredential(c, ctx, req) ==
    LET h0 == [req.header EXCEPT !.ContentType = <<"application/json">>,
                                 !.UserAgent = c.userAgent]
        h1 == [h0 EXCEPT !.AuthEmail = c.email, !.AuthKey = c.globalKey]
    IN  IF c.authMode = "AuthAPIToken"
        THEN httpDo(ctx, [req EXCEPT !.header =
                            [h1 EXCEPT !.Authorization = <<"Bearer", " ">> \o c.apiToken]])
        ELSE httpDo(ctx, [req EXCEPT !.header = h1])

\* Client.do, client.go:178-198
do(c, ctx, req) ==
    LET h0 == [req.header EXCEPT !.ContentType = <<"application/json">>,
                                 !.UserAgent = c.userAgent]
    IN  CASE c.authMode = "AuthGlobalKey" ->
                IF c.email = Empty \/ c.globalKey = Empty
                THEN Refused(Err("MissingCredential"))
                ELSE httpDo(ctx, [req EXCEPT !.header =
                                    [h0 EXCEPT !.AuthEmail = c.email, !.AuthKey = c.globalKey]])
          [] c.authMode = "AuthAPIToken" ->
                IF c.apiToken = Empty
                THEN Refused(Err("MissingCredential"))
                ELSE httpDo(ctx, [req EXCEPT !.header =
                                    [h0 EXCEPT !.Authorization = <<"Bearer", " ">> \o c.apiToken]])
          [] OTHER -> Refused(Err("UnknownAuthMode"))

\* --------------------------------------------------------------- responses
\* What the transport gives back for a dispatched request: an error, or a
\* response with a status and a body.  A body is unreadable ("readerr"), is
\* not the expected JSON ("garbage"), is plain text (the echo service) or is
\* the provider's envelope {success, result}; result is the list of zones or
\* records, and for create/update the single record as a one-element list
\* (the empty list stands for a missing or null result).
NoBody == [k |-> "none", success |-> FALSE, result |-> << >>, text |-> Empty]
TextBody(t) == [NoBody EXCEPT !.k = "text", !.text = t]
JSONBody(success, result) == [NoBody EXCEPT !.k = "json", !.success = success, !.result = result]
GarbageBody == [NoBody EXCEPT !.k = "garbage"]
ReadErrBody == [NoBody EXCEPT !.k = "readerr"]

NetErr(e) == [t |-> "err", err |-> e, status |-> 0, body |-> NoBody]
Response(st, body) == [t |-> "resp", err |-> NoErr, status |-> st, body |-> body]
NoNet == [t |-> "none", err |-> NoErr, status |-> 0, body |-> NoBody]

\* A status check that lets the redirections through.
Non2xxFrom400(st) == st < 200 \/ st >= 400

\* resp.StatusCode < 200 || resp.StatusCode >= 300
Non2xx(st) == st < 200 \/ st >= 300

\* json.NewDecoder(resp.Body).Decode(&out): the error, if any.
DecodeErr(body) ==
    CASE body.k = "json"    -> NoErr
      [] body.k = "readerr" -> Err("ReadError")
      [] OTHER              -> Err("DecodeError")

\* What the second half of an operation yields: the error, the value (a
\* string, or a record with found = FALSE for the nil record) and whether the
\* response body it acquired was closed.
StrResult(e, v, closed) == [err |-> e, str |-> v, found |-> FALSE, rec |-> NoRecord, closed |-> closed]
RecResult(e, found, r, closed) == [err |-> e, str |-> Empty, found |-> found, rec |-> r, closed |-> closed]
NoResult == StrResult(NoErr, Empty, FALSE)

\* ------------------------------------------------------------ IP discovery
\* ip.go:56
ipifyURL == <<"https:", "//", "api.ipify.org">>

\* DiscoverIPv4ViaIpify up to client.Do, ip.go:55-67 (src/unnamed/part_000)
DiscoverBegin(ctx) ==
    httpDo(ctx, NewRequest("Discover", "GET", ipifyURL, NoRecord))

\* A discovery that closes the body once it has read it, not by a deferred
\* Close.
DiscoverEndCloseAfterRead(net) ==
    IF net.t = "err" THEN StrResult(net.err, Empty, FALSE)
    ELSE IF Non2xx(net.status) THEN StrResult(StatusErr(net.status), Empty, FALSE)
    ELSE IF net.body.k # "text" THEN StrResult(Err("ReadError"), Empty, FALSE)
    ELSE LET parsed == ParseIP(net.body.text)
         IN  IF ~parsed.ok \/ ~To4(parsed.ip).ok
             THEN StrResult(Err("InvalidResponse"), Empty, TRUE)
             ELSE StrResult(NoErr, IPv4String(To4(parsed.ip).b), TRUE)

\* DiscoverIPv4ViaIpify after client.Do, ip.go:64-81
DiscoverEnd(net) ==
    IF net.t = "err" THEN StrResult(net.err, Empty, FALSE)
    ELSE IF Non2xx(net.status) THEN StrResult(StatusErr(net.status), Empty, TRUE)
    ELSE IF net.body.k # "text" THEN StrResult(Err("ReadError"), Empty, TRUE)
    ELSE LET parsed == ParseIP(net.body.text)
         IN  IF ~parsed.ok \/ ~To4(parsed.ip).ok
             THEN StrResult(Err("InvalidResponse"), Empty, TRUE)
             ELSE StrResult(NoErr, IPv4String(To4(parsed.ip).b), TRUE)

\* -------------------------------------------------------------- operations
\* FindZoneID up to c.do, dns.go:43-55
FindZoneIDBegin(c, ctx, zoneName) ==
    IF zoneName = Empty THEN Refused(Err("InvalidArgument"))
    ELSE do(c, ctx, NewRequest("FindZoneID", "GET",
                buildURL(c, <<"zones", "?", "name", "=">> \o QueryEscape(zoneName)),
                NoRecord))

\* A FindZoneID that takes the last zone of the list.
FindZoneIDEndLastZone(net) ==
    IF net.t = "err" THEN StrResult(net.err, Empty, FALSE)
    ELSE IF Non2xx(net.status) THEN StrResult(StatusErr(net.status), Empty, TRUE)
    ELSE IF DecodeErr(net.body) # NoErr THEN StrResult(DecodeErr(net.body), Empty, TRUE)
    ELSE IF ~net.body.success \/ Len(net.body.result) = 0
         THEN StrResult(Err("NotFound"), Empty, TRUE)
         ELSE StrResult(NoErr, net.body.result[Len(net.body.result)].id, TRUE)

\* FindZoneID after c.do, dns.go:52-67
FindZoneIDEnd(net) ==
    IF net.t = "err" THEN StrResult(net.err, Empty, FALSE)
    ELSE IF Non2xx(net.status) THEN StrResult(StatusErr(net.status), Empty, TRUE)
    ELSE IF DecodeErr(net.body) # NoErr THEN StrResult(DecodeErr(net.body), Empty, TRUE)
    ELSE IF ~net.body.success \/ Len(net.body.result) = 0
         THEN StrResult(Err("NotFound"), Empty, TRUE)
         ELSE StrResult(NoErr, net.body.result[1].id, TRUE)

\* A GetARecord that checks its fqdn only.
GetARecordBeginNameOnly(c, ctx, zoneID, fqdn) ==
    IF fqdn = Empty THEN Refused(Err("InvalidArgument"))
    ELSE do(c, ctx, NewRequest("GetARecord", "GET",
                buildURL(c, <<"zones", "/">> \o zoneID \o <<"/", "dns_records", "?">>
                            \o <<"name", "=">> \o QueryEscape(fqdn)
                            \o <<"&", "type", "=", "A">>),
                NoRecord))

\* A GetARecord that checks its zoneID only.
GetARecordBeginZoneOnly(c, ctx, zoneID, fqdn) ==
    IF zoneID = Empty THEN Refused(Err("InvalidArgument"))
    ELSE do(c, ctx, NewRequest("GetARecord", "GET",
                buildURL(c, <<"zones", "/">> \o zoneID \o <<"/", "dns_records", "?">>
                            \o <<"name", "=">> \o QueryEscape(fqdn)
                            \o <<"&", "type", "=", "A">>),
                NoRecord))

\* GetARecord up to c.do, dns.go:71-86; url.Values.Encode sorts by key.
GetARecordBegin(c, ctx, zoneID, fqdn) ==
    IF zoneID = Empty \/ fqdn = Empty THEN Refused(Err("InvalidArgument"))
    ELSE do(c, ctx, NewRequest("GetARecord", "GET",
                buildURL(c, <<"zones", "/">> \o zoneID \o <<"/", "dns_records", "?">>
                            \o <<"name", "=">> \o QueryEscape(fqdn)
                            \o <<"&", "type", "=", "A">>),
                NoRecord))

\* A GetARecord that reports an empty list as an error.
GetARecordEndAbsentIsError(net) ==
    IF net.t = "err" THEN RecResult(net.err, FALSE, NoRecord, FALSE)
    ELSE IF Non2xx(net.status) THEN RecResult(StatusErr(net.status), FALSE, NoRecord, TRUE)
    ELSE IF DecodeErr(net.body) # NoErr THEN RecResult(DecodeErr(net.body), FALSE, NoRecord, TRUE)
    ELSE IF ~net.body.success \/ Len(net.body.result) = 0
         THEN RecResult(Err("NotFound"), FALSE, NoRecord, TRUE)
         ELSE RecResult(NoErr, TRUE, net.body.result[1], TRUE)

\* GetARecord after c.do, dns.go:83-99
GetARecordEnd(net) ==
    IF net.t = "err" THEN RecResult(net.err, FALSE, NoRecord, FALSE)
    ELSE IF Non2xx(net.status) THEN RecResult(StatusErr(net.status), FALSE, NoRecord, TRUE)
    ELSE IF DecodeErr(net.body) # NoErr THEN RecResult(DecodeErr(net.body), FALSE, NoRecord, TRUE)
    ELSE IF ~net.body.success \/ Len(net.body.result) = 0
         THEN RecResult(NoErr, FALSE, NoRecord, TRUE)
         ELSE RecResult(NoErr, TRUE, net.body.result[1], TRUE)

\* CreateARecord up to c.do, dns.go:123-136
CreateARecordBegin(c, ctx, zoneID, payload) ==
    do(c, ctx, NewRequest("CreateARecord", "POST",
            buildURL(c, <<"zones", "/">> \o zoneID \o <<"/", "dns_records">>),
            payload))

\* The single record of a create/update envelope (the zero record when the
\* envelope has none).
OutResult(body) == IF Len(body.result) = 0 THEN NoRecord ELSE body.result[1]

\* CreateARecord after c.do, dns.go:133-148
CreateARecordEnd(net) ==
    IF net.t = "err" THEN RecResult(net.err, FALSE, NoRecord, FALSE)
    ELSE IF Non2xx(net.status) THEN RecResult(StatusErr(net.status), FALSE, NoRecord, TRUE)
    ELSE IF DecodeErr(net.body) # NoErr THEN RecResult(DecodeErr(net.body), FALSE, NoRecord, TRUE)
    ELSE IF ~net.body.success THEN RecResult(Err("OperationFailed"), FALSE, NoRecord, TRUE)
    ELSE RecResult(NoErr, TRUE, OutResult(net.body), TRUE)

\* UpsertARecord up to c.do, dns.go:104-115: the check of its arguments,
\* the payload, and CreateARecord.
UpsertARecordBegin(c, ctx, zoneID, name, ip, ttl, proxied) ==
    IF zoneID = Empty \/ name = Empty \/ ip = Empty THEN Refused(Err("InvalidArgument"))
    ELSE CreateARecordBegin(c, ctx, zoneID, DNSRecord(Empty, name, ip, ttl, proxied))

\* UpsertARecord after c.do, dns.go:115-119: what CreateARecord returned;
\* found stands for the "created" flag.
UpsertARecordEnd(net) == CreateARecordEnd(net)

\* An UpdateARecord that does not check its identifiers before it sends.
UpdateARecordBeginUnchecked(c, ctx, zoneID, recordID, payload) ==
    do(c, ctx, NewRequest("UpdateARecord", "PUT",
           buildURL(c, <<"zones", "/">> \o zoneID \o <<"/", "dns_records", "/">> \o recordID),
           payload))

\* UpdateARecord up to c.do, dns.go:152-168
UpdateARecordBegin(c, ctx, zoneID, recordID, payload) ==
    IF zoneID = Empty \/ recordID = Empty THEN Refused(Err("InvalidArgument"))
    ELSE do(c, ctx, NewRequest("UpdateARecord", "PUT",
                buildURL(c, <<"zones", "/">> \o zoneID \o <<"/", "dns_records", "/">> \o recordID),
                payload))

\* UpdateARecord after c.do, dns.go:165-180
UpdateARecordEnd(net) ==
    IF net.t = "err" THEN RecResult(net.err, FALSE, NoRecord, FALSE)
    ELSE IF Non2xx(net.status) THEN RecResult(StatusErr(net.status), FALSE, NoRecord, TRUE)
    ELSE IF DecodeErr(net.body) # NoErr THEN RecResult(DecodeErr(net.body), FALSE, NoRecord, TRUE)
    ELSE IF ~net.body.success THEN RecResult(Err("OperationFailed"), FALSE, NoRecord, TRUE)
    ELSE RecResult(NoErr, TRUE, OutResult(net.body), TRUE)

\* ------------------------------------------------------------ the CLI flow
\* A validateInputs that does not look at the ttl.
validateInputsWithoutTTL(zone, name, ttl, email, globalKey, apiToken) ==
    LET haveGlobal == email # Empty /\ globalKey # Empty
        haveToken  == apiToken # Empty
    IN  IF TrimSpace(zone) = Empty THEN Err("InvalidArgument")
        ELSE IF TrimSpace(name) = Empty THEN Err("InvalidArgument")
        ELSE IF haveGlobal /\ haveToken THEN Err("InvalidArgument")
        ELSE IF ~haveGlobal /\ ~haveToken THEN Err("InvalidArgument")
        ELSE NoErr

\* validateInputs, main.go:102-121
validateInputs(zone, name, ttl, email, globalKey, apiToken) ==
    LET haveGlobal == email # Empty /\ globalKey # Empty
        haveToken  == apiToken # Empty
    IN  IF TrimSpace(zone) = Empty THEN Err("InvalidArgument")
        ELSE IF TrimSpace(name) = Empty THEN Err("InvalidArgument")
        ELSE IF ttl < 0 THEN Err("InvalidArgument")
        ELSE IF haveGlobal /\ haveToken THEN Err("InvalidArgument")
        ELSE IF ~haveGlobal /\ ~haveToken THEN Err("InvalidArgument")
        ELSE NoErr

\* The construction step of run, main.go:50-64
constructClient(email, globalKey, apiToken) ==
    IF apiToken # Empty /\ email = Empty /\ globalKey = Empty
    THEN New(WithAPIToken(NoOptions, apiToken))
    ELSE IF apiToken = Empty /\ email # Empty /\ globalKey # Empty
         THEN New(WithGlobalKey(NoOptions, email, globalKey))
         ELSE [c |-> NoClient, err |-> Err("InvalidArgument")]

\* fqdn := name + "." + zone, main.go:78
FQDN(name, zone) == name \o <<".">> \o zone

\* payload, main.go:83
Payload(name, wanIP, ttl, proxied) == DNSRecord(Empty, name, wanIP, ttl, proxied)

\* A decision that takes a proxied record for one that needs an update.
DecideOnContentAndProxied(found, r, wanIP) ==
    IF found
    THEN IF r.content = wanIP /\ ~r.proxied THEN "NoOp" ELSE "Update"
    ELSE "Create"

\* A decision that never compares the content of the record it found.
DecideWithoutCompare(found, r, wanIP) == IF found THEN "Update" ELSE "Create"

\* The decision of run on the record GetARecord returned, main.go:84-95.
Decide(found, r, wanIP) ==
    IF found
    THEN IF r.content = wanIP THEN "NoOp" ELSE "Update"
    ELSE "Create"

\* ------------------------------------------------------------- environment
\* The inputs of the CLI and the answers of the echo service and the
\* provider are drawn from these sets.
IPa == <<"2", "0", "3", ".", "0", ".", "1", "1", "3", ".", "1">>
IPb == <<"2", "0", "3", ".", "0", ".", "1", "1", "3", ".", "9">>

ZoneNames == {Empty, <<" ">>, <<"example.com">>}
Labels == {Empty, <<" ">>, <<"home">>}
TTLs == {-1, 0, 300}
Emails == {Empty, <<"me@example.com">>}
GlobalKeys == {Empty, <<"key123">>}
APITokens == {Empty, <<"tok">>}

Configs ==
    [zone : ZoneNames, name : Labels, ttl : TTLs, proxied : BOOLEAN,
     email : Emails, globalKey : GlobalKeys, apiToken : APITokens]

\* The statuses of the answers to a library call, and those of the answers
\* within a run of the CLI.
Statuses == {101, 200, 299, 300, 500}
RunStatuses == {200, 500}

\* Bodies of the echo service.
EchoTexts == {IPa, IPb, Empty, <<"h", "i">>, <<":", ":", "1">>}
EchoBodies == {TextBody(t) : t \in EchoTexts} \cup {ReadErrBody}

\* Zone, dns.go:27-30
Zone(id) == [id |-> id, name |-> <<"example.com">>]
ZoneLists ==
    {<< >>, <<Zone(<<"zid">>)>>, <<Zone(Empty)>>, <<Zone(<<"zid">>), Zone(<<"z2">>)>>}
RunZoneLists == {<< >>, <<Zone(<<"zid">>)>>, <<Zone(Empty)>>}

\* The records the provider may hold for the name at the start.  A record
\* with an empty id is one the provider reports without its id.
StoredRecords ==
    {DNSRecord(id, <<"home", ".", "example.com">>, content, tp[1], tp[2]) :
        id \in {Empty, <<"r1">>}, content \in {IPa},
        tp \in {<<1, FALSE>>, <<300, TRUE>>}}
InitialStores == {<< >>} \cup {<<r>> : r \in StoredRecords}

\* The id the provider assigns to the n-th record.
RecordIDs == <<<<"r1">>, <<"r2">>, <<"r3">>, <<"r4">>>>

\* The last path element of a URL: the record id of an update request.
LastElem(url) == SubSeq(url, LastIndex(url, "/") + 1, Len(url))

Responses(sts, bodies) == {Response(st, b) : st \in sts, b \in bodies}

\* A transport that ignores the context of a request in flight.
AnswersIgnoringContext(ctx, responses) ==
    {NetErr(Err("TransportError"))} \cup responses

\* The transport's answers to a request in flight: the context's error once
\* the context is done, otherwise a transport error or one of the responses.
Answers(ctx, responses) ==
    IF CtxDone(ctx) THEN {NetErr(CtxErr(ctx))}
    ELSE {NetErr(Err("TransportError"))} \cup responses

EchoAnswers(ctx, sts) == Answers(ctx, Responses(sts, EchoBodies))

ZoneAnswers(ctx, sts, zs) ==
    Answers(ctx, Responses(sts, {GarbageBody, ReadErrBody, JSONBody(TRUE, zs),
                            JSONBody(FALSE, zs), JSONBody(FALSE, << >>)}))

RecordAnswers(ctx, sts, st) ==
    Answers(ctx, Responses(sts, {GarbageBody, ReadErrBody, JSONBody(TRUE, st),
                            JSONBody(FALSE, st), JSONBody(FALSE, << >>)}))

\* A write the provider refuses, or that never reaches it: the store is
\* left alone.
RefusedWrites(ctx, sts, req, st) ==
    {[net |-> n, store |-> st] :
        n \in Answers(ctx, {r \in Responses(sts, {GarbageBody, ReadErrBody,
                                JSONBody(FALSE, << >>), JSONBody(TRUE, <<req.body>>)}) :
                                Non2xx(r.status) \/ r.body.k # "json" \/ ~r.body.success})}

\* The record the provider stores for a create request.
Created(req, st) == [req.body EXCEPT !.id = RecordIDs[Len(st) + 1]]

\* The provider's answers to a create request and the store after each: it
\* stores the record exactly when it answers 2xx with success = true.
CreateAnswers(ctx, sts, req, st) ==
    RefusedWrites(ctx, sts, req, st) \cup
    IF CtxDone(ctx) \/ Len(st) >= MaxRecords THEN {}
    ELSE {[net   |-> Response(s, JSONBody(TRUE, <<Created(req, st)>>)),
           store |-> Append(st, Created(req, st))] : s \in {s \in sts : ~Non2xx(s)}}

\* The store after an update of the records with the id of the request.
Updated(req, st) ==
    [i \in 1..Len(st) |->
        IF st[i].id = LastElem(req.url) THEN [req.body EXCEPT !.id = st[i].id] ELSE st[i]]

\* The provider's answers to an update request and the store after each.
UpdateAnswers(ctx, sts, req, st) ==
    RefusedWrites(ctx, sts, req, st) \cup
    IF CtxDone(ctx) \/ ~(\E i \in 1..Len(st) : st[i].id = LastElem(req.url)) THEN {}
    ELSE {[net   |-> Response(s, JSONBody(TRUE, <<[req.body EXCEPT !.id = LastElem(req.url)]>>)),
           store |-> Updated(req, st)] : s \in {s \in sts : ~Non2xx(s)}}

\* ------------------------------------------------------------------- state
VARIABLES
    cfg,       \* the inputs of the CLI: zone, name, ttl, proxied, credentials
    pc,        \* where run is: "validate" .. "returned", then "exited"
    ctx,       \* the run's context: "none", "live", "canceled", "deadline"
    listener,  \* the goroutine of withSignalCancel: "none", "running", "exited"
    sigch,     \* signals buffered in the listener's channel (capacity 1)
    client,    \* c, the *Client of the run or of the library caller
    wanIP,     \* the discovered address
    zoneID,    \* the id FindZoneID returned
    rec,       \* rec of main.go:79: assigned without error (got), non-nil (found)
    outcome,   \* "none", "NoOp", "Updated", "Created", "Failed"
    runErr,    \* the error run returned
    msgs,      \* the status lines printed on standard output
    inflight,  \* the request the transport is working on
    calls,     \* the operations invoked so far in this run, in order
    reqs,      \* the requests handed to the network so far in this run, in order
    last,      \* the operation that returned last: its answer and its result
    open,      \* response bodies acquired and not closed
    store,     \* the A records the provider holds for the name
    runNo,     \* the number of this invocation
    prev,      \* whether the invocation before this one succeeded, and its address
    lib        \* the library caller: its options, its call and its result

vars ==
    <<cfg, pc, ctx, listener, sigch, client, wanIP, zoneID, rec, outcome, runErr,
      msgs, inflight, calls, reqs, last, open, store, runNo, prev, lib>>

NoRec == [got |-> FALSE, found |-> FALSE, rec |-> NoRecord]
NoLast == [op |-> "none", net |-> NoNet, res |-> NoResult]
NoPrev == [ok |-> FALSE, wanIP |-> Empty]
NoLib == [pc |-> "none", options |-> NoOptions, err |-> NoErr, ncalls |-> 0]

\* A call as the history keeps it: the operation, its arguments and the state
\* of the context it was made under.
Call(op, name, zid, rid, payload) ==
    [op |-> op, name |-> name, zoneID |-> zid, recordID |-> rid, payload |-> payload,
     ctx |-> ctx]

\* A response body is acquired with the response and released by the
\* operation's deferred Close.
Opened(net, res) == open + (IF net.t = "resp" /\ ~res.closed THEN 1 ELSE 0)

\* The process after flag parsing, main.go:21-34.
Init ==
    /\ cfg \in Configs
    /\ store \in InitialStores
    /\ pc = "validate"
    /\ ctx = "none"
    /\ listener = "none"
    /\ sigch = 0
    /\ client = NoClient
    /\ wanIP = Empty
    /\ zoneID = Empty
    /\ rec = NoRec
    /\ outcome = "none"
    /\ runErr = NoErr
    /\ msgs = << >>
    /\ inflight = NoRequest
    /\ calls = << >>
    /\ reqs = << >>
    /\ last = NoLast
    /\ open = 0
    /\ runNo = 1
    /\ prev = NoPrev
    /\ lib = NoLib

\* run returns: its outcome, its error, the line it printed, and the
\* deferred cancel() of main.go:47.
Return(out, e, line) ==
    /\ pc' = "returned"
    /\ outcome' = out
    /\ runErr' = e
    /\ msgs' = msgs \o line
    /\ ctx' = IF ctx = "live" THEN "canceled" ELSE ctx

\* A run that makes the call again, once, when the transport failed.
ContinueRetrying(e, nextpc) ==
    IF e = Err("TransportError") /\ Len(calls) < 4
    THEN /\ pc' = CASE nextpc = "findzone" -> "discover"
                    [] nextpc = "getrecord" -> "findzone"
                    [] nextpc = "decide" -> "getrecord"
                    [] OTHER -> nextpc
         /\ UNCHANGED <<ctx, outcome, runErr, msgs>>
    ELSE IF e # NoErr
    THEN Return("Failed", e, << >>)
    ELSE /\ pc' = nextpc
         /\ UNCHANGED <<ctx, outcome, runErr, msgs>>

\* A run that goes on to the next step whatever the step before returned.
ContinueWhatever(e, nextpc) ==
    /\ pc' = nextpc
    /\ UNCHANGED <<ctx, outcome, runErr, msgs>>

\* "if err != nil { return err }" after a step, main.go:62-64, 68-70, 74-76,
\* 80-82: run returns the error, or goes on to the next step.
Continue(e, nextpc) ==
    IF e # NoErr
    THEN Return("Failed", e, << >>)
    ELSE /\ pc' = nextpc
         /\ UNCHANGED <<ctx, outcome, runErr, msgs>>

\* A run that prints the status line of a write before it looks at the error.
AfterWritePrintsFirst(e, out) ==
    Return(IF e # NoErr THEN "Failed" ELSE out, e,
           <<[kind |-> out, fqdn |-> FQDN(cfg.name, cfg.zone), ip |-> wanIP]>>)

\* A run that records the failure of a write and then tries a create.
AfterWriteFailsThenCreates(e, out) ==
    IF e # NoErr /\ out = "Updated"
    THEN /\ pc' = "create"
         /\ outcome' = "Failed"
         /\ runErr' = e
         /\ UNCHANGED <<ctx, msgs>>
    ELSE IF e # NoErr
    THEN Return("Failed", e, << >>)
    ELSE Return(out, NoErr, <<[kind |-> out, fqdn |-> FQDN(cfg.name, cfg.zone), ip |-> wanIP]>>)

\* A run that answers a failed write with a create instead of returning.
AfterWriteFallback(e, out) ==
    IF e # NoErr
    THEN /\ pc' = "create"
         /\ UNCHANGED <<ctx, outcome, runErr, msgs>>
    ELSE Return(out, NoErr, <<[kind |-> out, fqdn |-> FQDN(cfg.name, cfg.zone), ip |-> wanIP]>>)

\* The return of the write, main.go:89-93 and 95-99: run returns the error,
\* or prints the status line and returns nil.
AfterWrite(e, out) ==
    IF e # NoErr
    THEN Return("Failed", e, << >>)
    ELSE Return(out, NoErr, <<[kind |-> out, fqdn |-> FQDN(cfg.name, cfg.zone), ip |-> wanIP]>>)

\* The first half of an operation of the run: the call is made; it either
\* fails before anything is sent, and run returns the error, or its request
\* is in flight.
Begin(op, call, b, waitpc) ==
    /\ calls' = Append(calls, call)
    /\ IF b.err # NoErr
       THEN /\ Return("Failed", b.err, << >>)
            /\ last' = [op |-> op, net |-> NoNet, res |-> [NoResult EXCEPT !.err = b.err]]
            /\ UNCHANGED <<inflight, reqs>>
       ELSE /\ pc' = waitpc
            /\ inflight' = b.req
            /\ reqs' = Append(reqs, b.req)
            /\ UNCHANGED <<ctx, outcome, runErr, msgs, last>>

\* main.go:41-48: validateInputs, then the context and the signal listener.
RunValidate ==
    /\ pc = "validate"
    /\ LET e == validateInputs(cfg.zone, cfg.name, cfg.ttl, cfg.email, cfg.globalKey, cfg.apiToken)
       IN  IF e # NoErr
           THEN /\ Return("Failed", e, << >>)
                /\ UNCHANGED listener
           ELSE /\ pc' = "construct"
                /\ ctx' = "live"
                /\ listener' = "running"
                /\ UNCHANGED <<outcome, runErr, msgs>>
    /\ UNCHANGED <<cfg, sigch, client, wanIP, zoneID, rec, inflight, calls, reqs, last,
                   open, store, runNo, prev, lib>>

\* main.go:50-64
RunConstruct ==
    /\ pc = "construct"
    /\ LET r == constructClient(cfg.email, cfg.globalKey, cfg.apiToken)
       IN  /\ client' = r.c
           /\ Continue(r.err, "discover")
    /\ UNCHANGED <<cfg, listener, sigch, wanIP, zoneID, rec, inflight, calls, reqs, last,
                   open, store, runNo, prev, lib>>

\* main.go:67, the call
DiscoverCall ==
    /\ pc = "discover"
    /\ Begin("Discover", Call("Discover", Empty, Empty, Empty, NoRecord), DiscoverBegin(ctx),
             "discover_wait")
    /\ UNCHANGED <<cfg, listener, sigch, client, wanIP, zoneID, rec, open, store,
                   runNo, prev, lib>>

\* main.go:67-70, the return
DiscoverReturn ==
    /\ pc = "discover_wait"
    /\ \E net \in EchoAnswers(ctx, RunStatuses) :
         LET r == DiscoverEnd(net)
         IN  /\ last' = [op |-> "Discover", net |-> net, res |-> r]
             /\ open' = Opened(net, r)
             /\ wanIP' = r.str
             /\ Continue(r.err, "findzone")
    /\ inflight' = NoRequest
    /\ UNCHANGED <<cfg, listener, sigch, client, zoneID, rec, calls, reqs, store,
                   runNo, prev, lib>>

\* main.go:73, the call
FindZoneCall ==
    /\ pc = "findzone"
    /\ Begin("FindZoneID", Call("FindZoneID", cfg.zone, Empty, Empty, NoRecord),
             FindZoneIDBegin(client, ctx, cfg.zone), "findzone_wait")
    /\ UNCHANGED <<cfg, listener, sigch, client, wanIP, zoneID, rec, open, store,
                   runNo, prev, lib>>

\* main.go:73-76, the return
FindZoneReturn ==
    /\ pc = "findzone_wait"
    /\ \E net \in UNION {ZoneAnswers(ctx, RunStatuses, zs) : zs \in RunZoneLists} :
         LET r == FindZoneIDEnd(net)
         IN  /\ last' = [op |-> "FindZoneID", net |-> net, res |-> r]
             /\ open' = Opened(net, r)
             /\ zoneID' = r.str
             /\ Continue(r.err, "getrecord")
    /\ inflight' = NoRequest
    /\ UNCHANGED <<cfg, listener, sigch, client, wanIP, rec, calls, reqs, store,
                   runNo, prev, lib>>

\* main.go:78-79, the call
GetRecordCall ==
    /\ pc = "getrecord"
    /\ Begin("GetARecord", Call("GetARecord", FQDN(cfg.name, cfg.zone), zoneID, Empty, NoRecord),
             GetARecordBegin(client, ctx, zoneID, FQDN(cfg.name, cfg.zone)), "getrecord_wait")
    /\ UNCHANGED <<cfg, listener, sigch, client, wanIP, zoneID, rec, open, store,
                   runNo, prev, lib>>

\* main.go:79-82, the return
GetRecordReturn ==
    /\ pc = "getrecord_wait"
    /\ \E net \in RecordAnswers(ctx, RunStatuses, store) :
         LET r == GetARecordEnd(net)
         IN  /\ last' = [op |-> "GetARecord", net |-> net, res |-> r]
             /\ open' = Opened(net, r)
             /\ rec' = [got |-> r.err = NoErr, found |-> r.found, rec |-> r.rec]
             /\ Continue(r.err, "decide")
    /\ inflight' = NoRequest
    /\ UNCHANGED <<cfg, listener, sigch, client, wanIP, zoneID, calls, reqs, store,
                   runNo, prev, lib>>

\* main.go:83-88 and the branch taken at 84-95
RunDecide ==
    /\ pc = "decide"
    /\ LET d == Decide(rec.found, rec.rec, wanIP)
       IN  IF d = "NoOp"
           THEN Return("NoOp", NoErr, <<[kind |-> "NoOp", fqdn |-> FQDN(cfg.name, cfg.zone), ip |-> wanIP]>>)
           ELSE /\ pc' = IF d = "Update" THEN "update" ELSE "create"
                /\ UNCHANGED <<ctx, outcome, runErr, msgs>>
    /\ UNCHANGED <<cfg, listener, sigch, client, wanIP, zoneID, rec, inflight, calls, reqs,
                   last, open, store, runNo, prev, lib>>

\* main.go:89, the call
UpdateCall ==
    /\ pc = "update"
    /\ LET payload == Payload(cfg.name, wanIP, cfg.ttl, cfg.proxied)
       IN  Begin("UpdateARecord", Call("UpdateARecord", Empty, zoneID, rec.rec.id, payload),
                 UpdateARecordBegin(client, ctx, zoneID, rec.rec.id, payload), "update_wait")
    /\ UNCHANGED <<cfg, listener, sigch, client, wanIP, zoneID, rec, open, store,
                   runNo, prev, lib>>

\* main.go:89-93, the return
UpdateReturn ==
    /\ pc = "update_wait"
    /\ \E a \in UpdateAnswers(ctx, RunStatuses, inflight, store) :
         LET r == UpdateARecordEnd(a.net)
         IN  /\ last' = [op |-> "UpdateARecord", net |-> a.net, res |-> r]
             /\ open' = Opened(a.net, r)
             /\ store' = a.store
             /\ AfterWrite(r.err, "Updated")
    /\ inflight' = NoRequest
    /\ UNCHANGED <<cfg, listener, sigch, client, wanIP, zoneID, rec, calls, reqs,
                   runNo, prev, lib>>

\* main.go:95, the call
CreateCall ==
    /\ pc = "create"
    /\ LET payload == Payload(cfg.name, wanIP, cfg.ttl, cfg.proxied)
       IN  Begin("CreateARecord", Call("CreateARecord", Empty, zoneID, Empty, payload),
                 CreateARecordBegin(client, ctx, zoneID, payload), "create_wait")
    /\ UNCHANGED <<cfg, listener, sigch, client, wanIP, zoneID, rec, open, store,
                   runNo, prev, lib>>

\* main.go:95-99, the return
CreateReturn ==
    /\ pc = "create_wait"
    /\ \E a \in CreateAnswers(ctx, RunStatuses, inflight, store) :
         LET r == CreateARecordEnd(a.net)
         IN  /\ last' = [op |-> "CreateARecord", net |-> a.net, res |-> r]
             /\ open' = Opened(a.net, r)
             /\ store' = a.store
             /\ AfterWrite(r.err, "Created")
    /\ inflight' = NoRequest
    /\ UNCHANGED <<cfg, listener, sigch, client, wanIP, zoneID, rec, calls, reqs,
                   runNo, prev, lib>>

\* The deadline of context.WithTimeout passes, main.go:46.
Timeout ==
    /\ ctx = "live"
    /\ pc \notin {"returned", "exited"}
    /\ ctx' = "deadline"
    /\ UNCHANGED <<cfg, pc, listener, sigch, client, wanIP, zoneID, rec, outcome, runErr,
                   msgs, inflight, calls, reqs, last, open, store, runNo, prev, lib>>

\* An interrupt or SIGTERM is delivered to the channel of signal.Notify,
\* main.go:124-125.  Nothing reads the channel once the listener has exited,
\* and a signal after the context is done changes nothing the run can see:
\* only signals that find the listener running and the context live are drawn.
Signal ==
    /\ listener = "running"
    /\ ctx = "live"
    /\ pc # "exited"
    /\ sigch = 0
    /\ sigch' = 1
    /\ UNCHANGED <<cfg, pc, ctx, listener, client, wanIP, zoneID, rec, outcome, runErr,
                   msgs, inflight, calls, reqs, last, open, store, runNo, prev, lib>>

\* The listener takes the signal and cancels, main.go:128-129.
ListenerOnSignal ==
    /\ listener = "running"
    /\ pc # "exited"
    /\ sigch = 1
    /\ sigch' = 0
    /\ ctx' = IF ctx = "live" THEN "canceled" ELSE ctx
    /\ listener' = "exited"
    /\ UNCHANGED <<cfg, pc, client, wanIP, zoneID, rec, outcome, runErr, msgs, inflight,
                   calls, reqs, last, open, store, runNo, prev, lib>>

\* A listener that wakes on the deadline only, not on cancel().
ListenerOnDeadlineOnly ==
    /\ listener = "running"
    /\ pc # "exited"
    /\ ctx = "deadline"
    /\ listener' = "exited"
    /\ UNCHANGED <<cfg, pc, ctx, sigch, client, wanIP, zoneID, rec, outcome, runErr, msgs,
                   inflight, calls, reqs, last, open, store, runNo, prev, lib>>

\* The listener sees the context done, main.go:130.
ListenerOnDone ==
    /\ listener = "running"
    /\ pc # "exited"
    /\ CtxDone(ctx)
    /\ listener' = "exited"
    /\ UNCHANGED <<cfg, pc, ctx, sigch, client, wanIP, zoneID, rec, outcome, runErr, msgs,
                   inflight, calls, reqs, last, open, store, runNo, prev, lib>>

\* The exit status of the process, main.go:34-37: os.Exit(1) when run
\* returned an error, 0 otherwise.
ExitStatus == IF runErr # NoErr THEN 1 ELSE 0

\* main returns or calls os.Exit(1), main.go:34-38: the process is gone.
Exit ==
    /\ pc = "returned"
    /\ pc' = "exited"
    /\ UNCHANGED <<cfg, ctx, listener, sigch, client, wanIP, zoneID, rec, outcome, runErr,
                   msgs, inflight, calls, reqs, last, open, store, runNo, prev, lib>>

\* The CLI is invoked again with the same inputs; the provider keeps its
\* records.
RunNext ==
    /\ pc = "exited"
    /\ runNo < MaxRuns
    /\ runNo' = runNo + 1
    /\ prev' = IF outcome \in {"NoOp", "Updated", "Created"}
               THEN [ok |-> TRUE, wanIP |-> wanIP]
               ELSE NoPrev
    /\ pc' = "validate"
    /\ ctx' = "none"
    /\ listener' = "none"
    /\ sigch' = 0
    /\ client' = NoClient
    /\ wanIP' = Empty
    /\ zoneID' = Empty
    /\ rec' = NoRec
    /\ outcome' = "none"
    /\ runErr' = NoErr
    /\ msgs' = << >>
    /\ inflight' = NoRequest
    /\ calls' = << >>
    /\ reqs' = << >>
    /\ last' = NoLast
    /\ open' = 0
    /\ UNCHANGED <<cfg, store, lib>>

Next ==
    \/ RunValidate
    \/ RunConstruct
    \/ DiscoverCall
    \/ DiscoverReturn
    \/ FindZoneCall
    \/ FindZoneReturn
    \/ GetRecordCall
    \/ GetRecordReturn
    \/ RunDecide
    \/ UpdateCall
    \/ UpdateReturn
    \/ CreateCall
    \/ CreateReturn
    \/ Timeout
    \/ Signal
    \/ ListenerOnSignal
    \/ ListenerOnDone
    \/ Exit
    \/ RunNext

Spec == Init /\ [][Next]_vars

\* The inputs of the runs whose progress is checked: inputs that validation
\* refuses or accepts, under a token or a key pair, with and without a
\* record at the provider.
LiveConfigs ==
    {c \in Configs : /\ c.zone = <<"example.com">>
                     /\ c.ttl = 300
                     /\ ~c.proxied
                     /\ (c.globalKey = Empty <=> c.email = Empty)}

InitLive == Init /\ cfg \in LiveConfigs

\* Where main's goroutine goes on by itself, main.go:34-100, and where it
\* waits for the network.
RunPcs ==
    {"validate", "construct", "discover", "findzone", "getrecord", "decide", "update",
     "create", "returned"}
WaitPcs == {"discover_wait", "findzone_wait", "getrecord_wait", "update_wait", "create_wait"}

\* main's goroutine takes its next step: RunValidate, RunConstruct, the
\* calls, RunDecide and Exit are the steps that leave these positions, and
\* each of them is enabled at its position.
RunAdvances ==
    /\ pc \in RunPcs
    /\ pc' \in (RunPcs \cup WaitPcs \cup {"exited"}) \ {pc}

\* A network call returns, with a response or with an error.
NetworkReturns ==
    \/ DiscoverReturn
    \/ FindZoneReturn
    \/ GetRecordReturn
    \/ UpdateReturn
    \/ CreateReturn

\* The steps of the goroutine of withSignalCancel, main.go:126-131.
ListenerStep ==
    \/ ListenerOnSignal
    \/ ListenerOnDone

\* The runs in which the scheduler lets each goroutine that can go on do so
\* and every network call returns; the deadline, the signals and the next
\* invocation are up to the environment.
SpecLive ==
    /\ InitLive
    /\ [][Next]_vars
    /\ WF_pc(RunAdvances)
    /\ WF_vars(NetworkReturns)
    /\ WF_vars(ListenerStep)

\* ------------------------------------------------------ the library caller
\* A program that uses the packages directly: it builds a client from its
\* options and calls the operations, one at a time, under a context of its
\* own.  calls and reqs hold the call being made and the requests it sent.
BaseURLs ==
    {Empty,                                                   \* the default
     defaultBaseURL \o <<"/">>,                               \* with a trailing slash
     <<"http:", "//", "127.0.0.1:8080">>,                     \* a test server, no path
     <<":">>}                                                 \* not a URL

LibOptions ==
    {[NoOptions EXCEPT !.Email = e, !.GlobalKey = k, !.APIToken = t] :
        e \in Emails, k \in GlobalKeys, t \in APITokens}
    \cup {WithBaseURL(WithAPIToken(NoOptions, <<"tok">>), b) : b \in BaseURLs}
    \cup {WithUserAgent(WithGlobalKey(NoOptions, <<"me@example.com">>, <<"key123">>), ua) :
            ua \in {<<" ">>, <<"ua/1">>}}

NoConfig ==
    [zone |-> Empty, name |-> Empty, ttl |-> 0, proxied |-> FALSE,
     email |-> Empty, globalKey |-> Empty, apiToken |-> Empty]

LibZoneNames == {Empty, <<"example.com">>}
LibZoneIDs == {Empty, <<"zid">>}
LibFQDNs == {Empty, <<"home", ".", "example.com">>}
LibRecordIDs == {Empty, <<"r1">>, <<"r9">>}
LibPayloads == {DNSRecord(Empty, <<"home">>, IPb, 300, FALSE)}

InitLib ==
    /\ lib \in [pc : {"new"}, options : LibOptions, err : {NoErr}, ncalls : {0}]
    /\ ctx \in {"live", "canceled", "deadline"}
    /\ store \in InitialStores
    /\ cfg = NoConfig
    /\ pc = "lib"
    /\ listener = "none"
    /\ sigch = 0
    /\ client = NoClient
    /\ wanIP = Empty
    /\ zoneID = Empty
    /\ rec = NoRec
    /\ outcome = "none"
    /\ runErr = NoErr
    /\ msgs = << >>
    /\ inflight = NoRequest
    /\ calls = << >>
    /\ reqs = << >>
    /\ last = NoLast
    /\ open = 0
    /\ runNo = 1
    /\ prev = NoPrev

\* c, err := cloudflare.New(opts...)
LibNew ==
    /\ lib.pc = "new"
    /\ LET r == New(lib.options)
       IN  /\ client' = r.c
           /\ lib' = [lib EXCEPT !.pc = IF r.err = NoErr THEN "idle" ELSE "failed",
                                 !.err = r.err]
    /\ UNCHANGED <<cfg, pc, ctx, listener, sigch, wanIP, zoneID, rec, outcome, runErr, msgs,
                   inflight, calls, reqs, last, open, store, runNo, prev>>

\* Where the caller stands between calls: with a client, or with the nil
\* client of a failed New (only discovery can be called then).
LibIdle == IF client = NoClient THEN "failed" ELSE "idle"

\* The first half of a library call: refused with an error, or in flight.
LibBegin(call, b) ==
    /\ lib.ncalls < MaxCalls
    /\ calls' = <<call>>
    /\ lib' = [lib EXCEPT !.ncalls = @ + 1, !.pc = IF b.err # NoErr THEN LibIdle ELSE "wait"]
    /\ IF b.err # NoErr
       THEN /\ last' = [op |-> call.op, net |-> NoNet, res |-> [NoResult EXCEPT !.err = b.err]]
            /\ inflight' = NoRequest
            /\ reqs' = << >>
       ELSE /\ last' = NoLast
            /\ inflight' = b.req
            /\ reqs' = <<b.req>>
    /\ UNCHANGED <<cfg, pc, ctx, listener, sigch, client, wanIP, zoneID, rec, outcome, runErr,
                   msgs, open, store, runNo, prev>>

\* The second half: the answer arrives and the operation returns.
LibEnd(op, net, r, st) ==
    /\ last' = [op |-> op, net |-> net, res |-> r]
    /\ open' = Opened(net, r)
    /\ store' = st
    /\ inflight' = NoRequest
    /\ lib' = [lib EXCEPT !.pc = LibIdle]
    /\ UNCHANGED <<cfg, pc, ctx, listener, sigch, client, wanIP, zoneID, rec, outcome, runErr,
                   msgs, calls, reqs, runNo, prev>>

LibDiscoverCall ==
    /\ lib.pc \in {"idle", "failed"}
    /\ LibBegin(Call("Discover", Empty, Empty, Empty, NoRecord), DiscoverBegin(ctx))

\* Bodies of the echo service beyond those of the runs: IPv4-mapped IPv6
\* text in both spellings, a field with a leading zero, and an address
\* followed by another character.
LibEchoTexts ==
    {<<":", ":", "f", "f", "f", "f", ":", "1", ".", "2", ".", "3", ".", "4">>,
     <<":", ":", "f", "f", "f", "f", ":", "1", "0", "2", ":", "3", "0", "4">>,
     <<"1", ".", "2", ".", "3", ".", "0", "4">>,
     IPa \o <<" ">>}

LibEchoAnswers(cx, sts) ==
    EchoAnswers(cx, sts)
    \cup Answers(cx, Responses({200}, {TextBody(t) : t \in LibEchoTexts}))

LibDiscoverReturn ==
    /\ lib.pc = "wait" /\ inflight.op = "Discover"
    /\ \E net \in LibEchoAnswers(ctx, Statuses) :
         LibEnd("Discover", net, DiscoverEnd(net), store)

LibFindZoneIDCall ==
    /\ lib.pc = "idle"
    /\ \E zn \in LibZoneNames :
         LibBegin(Call("FindZoneID", zn, Empty, Empty, NoRecord), FindZoneIDBegin(client, ctx, zn))

LibFindZoneIDReturn ==
    /\ lib.pc = "wait" /\ inflight.op = "FindZoneID"
    /\ \E net \in UNION {ZoneAnswers(ctx, Statuses, zs) : zs \in ZoneLists} :
         LibEnd("FindZoneID", net, FindZoneIDEnd(net), store)

LibGetARecordCall ==
    /\ lib.pc = "idle"
    /\ \E zid \in LibZoneIDs, fqdn \in LibFQDNs :
         LibBegin(Call("GetARecord", fqdn, zid, Empty, NoRecord),
                  GetARecordBegin(client, ctx, zid, fqdn))

LibGetARecordReturn ==
    /\ lib.pc = "wait" /\ inflight.op = "GetARecord"
    /\ \E net \in RecordAnswers(ctx, Statuses, store) :
         LibEnd("GetARecord", net, GetARecordEnd(net), store)

LibCreateARecordCall ==
    /\ lib.pc = "idle"
    /\ \E zid \in LibZoneIDs, payload \in LibPayloads :
         LibBegin(Call("CreateARecord", Empty, zid, Empty, payload),
                  CreateARecordBegin(client, ctx, zid, payload))

LibCreateARecordReturn ==
    /\ lib.pc = "wait" /\ inflight.op = "CreateARecord" /\ calls[1].op = "CreateARecord"
    /\ \E a \in CreateAnswers(ctx, Statuses, inflight, store) :
         LibEnd("CreateARecord", a.net, CreateARecordEnd(a.net), a.store)

LibUpsertARecordCall ==
    /\ lib.pc = "idle"
    /\ \E zid \in LibZoneIDs, name \in {Empty, <<"home">>}, payload \in LibPayloads :
         LibBegin(Call("UpsertARecord", Empty, zid, Empty,
                       DNSRecord(Empty, name, payload.content, payload.ttl, payload.proxied)),
                  UpsertARecordBegin(client, ctx, zid, name, payload.content, payload.ttl,
                                     payload.proxied))

LibUpsertARecordReturn ==
    /\ lib.pc = "wait" /\ inflight.op = "CreateARecord" /\ calls[1].op = "UpsertARecord"
    /\ \E a \in CreateAnswers(ctx, Statuses, inflight, store) :
         LibEnd("UpsertARecord", a.net, UpsertARecordEnd(a.net), a.store)

LibUpdateARecordCall ==
    /\ lib.pc = "idle"
    /\ \E zid \in LibZoneIDs, rid \in LibRecordIDs, payload \in LibPayloads :
         LibBegin(Call("UpdateARecord", Empty, zid, rid, payload),
                  UpdateARecordBegin(client, ctx, zid, rid, payload))

LibUpdateARecordReturn ==
    /\ lib.pc = "wait" /\ inflight.op = "UpdateARecord"
    /\ \E a \in UpdateAnswers(ctx, Statuses, inflight, store) :
         LibEnd("UpdateARecord", a.net, UpdateARecordEnd(a.net), a.store)

\* The caller's context is cancelled or its deadline passes.
LibCtxDone ==
    /\ lib.pc \in {"idle", "wait"}
    /\ ctx = "live"
    /\ ctx' \in {"canceled", "deadline"}
    /\ UNCHANGED <<cfg, pc, listener, sigch, client, wanIP, zoneID, rec, outcome, runErr, msgs,
                   inflight, calls, reqs, last, open, store, runNo, prev, lib>>

NextLib ==
    \/ LibNew
    \/ LibDiscoverCall
    \/ LibDiscoverReturn
    \/ LibFindZoneIDCall
    \/ LibFindZoneIDReturn
    \/ LibGetARecordCall
    \/ LibGetARecordReturn
    \/ LibCreateARecordCall
    \/ LibCreateARecordReturn
    \/ LibUpsertARecordCall
    \/ LibUpsertARecordReturn
    \/ LibUpdateARecordCall
    \/ LibUpdateARecordReturn
    \/ LibCtxDone

SpecClient == InitLib /\ [][NextLib]_vars

\* =================================================================== claims
\* What the properties below read off the history of a run.
WriteOps == {"CreateARecord", "UpdateARecord"}
ReqsOf(op) == {i \in 1..Len(reqs) : reqs[i].op = op}
CallsOf(op) == {i \in 1..Len(calls) : calls[i].op = op}
WriteReqs == {i \in 1..Len(reqs) : reqs[i].op \in WriteOps}
WriteCalls == {i \in 1..Len(calls) : calls[i].op \in WriteOps}
Ended == pc \in {"returned", "exited"}
\* GetARecord returned to run a record whose content is / is not the address.
LookupSame == rec.got /\ rec.found /\ rec.rec.content = wanIP
LookupDiffers == rec.got /\ rec.found /\ rec.rec.content # wanIP
LookupAbsent == rec.got /\ ~rec.found

\* C1: in any run, once GetARecord has returned an existing record whose
\* content equals the discovered address, no write request is ever sent, no
\* write operation is called, and the run ends with the outcome NoOp and no
\* error.
C1_NoOpSendsNoWrite ==
    LookupSame =>
        /\ WriteReqs = {}
        /\ WriteCalls = {}
        /\ pc \in {"decide", "returned", "exited"}
        /\ Ended => outcome = "NoOp" /\ runErr = NoErr

\* The case of C1: a run that found the record up to date and has returned.
C1_Witness ==
    /\ pc = "returned"
    /\ LookupSame
    /\ outcome = "NoOp"
    /\ Len(reqs) = 3

\* C2 as stated: when the content of the record found differs from the
\* address, the run has sent exactly one Update request, carrying the id of
\* that record and the address as content, and no Create request; when
\* GetARecord reported no record, it has sent exactly one Create request with
\* the address as content and no Update request.
C2_ExactlyOneWriteRequest ==
    Ended =>
        /\ LookupDiffers =>
              /\ Cardinality(ReqsOf("UpdateARecord")) = 1
              /\ ReqsOf("CreateARecord") = {}
              /\ \A i \in ReqsOf("UpdateARecord") :
                    /\ LastElem(reqs[i].url) = rec.rec.id
                    /\ reqs[i].body.content = wanIP
        /\ LookupAbsent =>
              /\ Cardinality(ReqsOf("CreateARecord")) = 1
              /\ ReqsOf("UpdateARecord") = {}
              /\ \A i \in ReqsOf("CreateARecord") : reqs[i].body.content = wanIP

\* C2 as the code has it: when the content of the record found differs from
\* the address, the run calls UpdateARecord exactly once, with the id of that
\* record and the address as content, and never CreateARecord; the call
\* sends exactly one Update request, carrying that id and that content, when
\* the id is not empty and the context is not done at the call, and none
\* otherwise.  When GetARecord reported no record, the run calls
\* CreateARecord exactly once with the address as content and never
\* UpdateARecord; the call sends exactly one Create request when the context
\* is not done at the call, and none otherwise.
C2_ExactlyOneWriteCall ==
    Ended =>
        /\ LookupDiffers =>
              /\ Cardinality(CallsOf("UpdateARecord")) = 1
              /\ CallsOf("CreateARecord") = {}
              /\ ReqsOf("CreateARecord") = {}
              /\ \A i \in CallsOf("UpdateARecord") :
                    /\ calls[i].recordID = rec.rec.id
                    /\ calls[i].payload.content = wanIP
                    /\ Cardinality(ReqsOf("UpdateARecord")) =
                          IF rec.rec.id # Empty /\ calls[i].ctx = "live" THEN 1 ELSE 0
              /\ \A i \in ReqsOf("UpdateARecord") :
                    /\ LastElem(reqs[i].url) = rec.rec.id
                    /\ reqs[i].body.content = wanIP
        /\ LookupAbsent =>
              /\ Cardinality(CallsOf("CreateARecord")) = 1
              /\ CallsOf("UpdateARecord") = {}
              /\ ReqsOf("UpdateARecord") = {}
              /\ \A i \in CallsOf("CreateARecord") :
                    /\ calls[i].payload.content = wanIP
                    /\ Cardinality(ReqsOf("CreateARecord")) =
                          IF calls[i].ctx = "live" THEN 1 ELSE 0
              /\ \A i \in ReqsOf("CreateARecord") : reqs[i].body.content = wanIP

\* The case of C2: a run that found a record with another content and an
\* id, sent its one Update request and returned.
C2_Witness ==
    /\ pc = "returned"
    /\ LookupDiffers
    /\ rec.rec.id # Empty
    /\ Cardinality(ReqsOf("UpdateARecord")) = 1
    /\ outcome = "Updated"

\* C3: a run sends at most one write request, and calls at most one write
\* operation, whatever the answers to its requests, failures included.
C3_AtMostOneWrite ==
    /\ Cardinality(WriteReqs) <= 1
    /\ Cardinality(WriteCalls) <= 1

\* The case of C3: a run whose one write request failed and which returned
\* the failure.
C3_Witness ==
    /\ pc = "returned"
    /\ outcome = "Failed"
    /\ Cardinality(WriteReqs) = 1
    /\ last.op \in WriteOps
    /\ last.net.t = "resp"

\* The answer to the operation that returned last was a 2xx response whose
\* body decodes to an envelope with success = false.
SuccessFalseAnswer ==
    /\ last.net.t = "resp"
    /\ ~Non2xx(last.net.status)
    /\ last.net.body.k = "json"
    /\ ~last.net.body.success

\* C4: whenever FindZoneID, GetARecord, CreateARecord or UpdateARecord was
\* answered with a 2xx response whose envelope has success = false, the
\* operation returned an error: no value, and not the absent result.
C4_SuccessFalseIsError ==
    (last.op \in {"FindZoneID", "GetARecord", "CreateARecord", "UpdateARecord"}
        /\ SuccessFalseAnswer)
    => last.res.err # NoErr

\* The credentials handed to New are one complete variant and nothing of the
\* other: a token alone, or an email and a global key alone.
ExactlyOneVariant(o) ==
    \/ o.APIToken # Empty /\ o.Email = Empty /\ o.GlobalKey = Empty
    \/ o.APIToken = Empty /\ o.Email # Empty /\ o.GlobalKey # Empty

\* C5: New, given the default base URL, has succeeded exactly when the
\* options held one credential variant: it failed with neither or both, and
\* with every partial or mixed combination.
C5_NewIffOneVariant ==
    (lib.pc # "new" /\ lib.options.BaseURL = Empty)
    => ((lib.err = NoErr) <=> ExactlyOneVariant(lib.options))

\* The text of the base URL the client was configured with, without a
\* trailing slash.
BaseText(o) ==
    LET b == IF o.BaseURL = Empty THEN defaultBaseURL ELSE o.BaseURL
    IN  IF b # Empty /\ b[Len(b)] = "/" THEN SubSeq(b, 1, Len(b) - 1) ELSE b

\* The relative path of the operation a call names, as the wire contract
\* gives it.
RelativePath(call) ==
    IF call.op = "FindZoneID"
    THEN <<"/", "zones", "?", "name", "=">> \o call.name
    ELSE IF call.op = "GetARecord"
    THEN <<"/", "zones", "/">> \o call.zoneID \o <<"/", "dns_records", "?", "name", "=">>
         \o call.name \o <<"&", "type", "=", "A">>
    ELSE IF call.op \in {"CreateARecord", "UpsertARecord"}
    THEN <<"/", "zones", "/">> \o call.zoneID \o <<"/", "dns_records">>
    ELSE <<"/", "zones", "/">> \o call.zoneID \o <<"/", "dns_records", "/">> \o call.recordID

\* C10: the URL of every request an operation of the client sends is the
\* configured base URL, its whole path included, followed by the relative
\* path of the operation.
C10_URLKeepsBasePath ==
    \A i \in 1..Len(reqs) :
        reqs[i].op # "Discover" => reqs[i].url = BaseText(lib.options) \o RelativePath(calls[i])

\* C10 without the default base URL: what remains of the property for the
\* bases that end in a slash or have no path.
C10_ExceptDefaultBase ==
    lib.options.BaseURL # Empty => C10_URLKeepsBasePath

\* C6: in a run that follows a successful run and discovered the same
\* address, with the provider keeping what the writes it accepted wrote, no
\* write operation is called and no write request is sent; the record
\* GetARecord returns holds the address, and a run that does not fail ends
\* with the outcome NoOp.
C6_RerunIsNoOp ==
    (runNo > 1 /\ prev.ok /\ wanIP # Empty /\ wanIP = prev.wanIP)
    => /\ WriteCalls = {}
       /\ WriteReqs = {}
       /\ rec.got => LookupSame
       /\ (Ended /\ outcome # "Failed") => outcome = "NoOp"

\* The steps before the write, in the order of run.
StepOrder == <<"Discover", "FindZoneID", "GetARecord">>

\* C7: the operations of a run are called in the order discovery,
\* FindZoneID, GetARecord, write, each at most once, and their requests are
\* sent in that order; once an operation has returned an error the run has
\* ended in failure, that operation is the last one called and nothing is
\* in flight.
C7_FixedOrderFailFast ==
    /\ Len(calls) <= 4
    /\ \A i \in 1..Len(calls) :
          IF i <= 3 THEN calls[i].op = StepOrder[i] ELSE calls[i].op \in WriteOps
    /\ Len(reqs) <= Len(calls)
    /\ \A i \in 1..Len(reqs) : reqs[i].op = calls[i].op
    /\ (last.op # "none" /\ last.res.err # NoErr)
       => /\ Ended
          /\ outcome = "Failed"
          /\ runErr = last.res.err
          /\ calls[Len(calls)].op = last.op
          /\ inflight = NoRequest

\* The case of C7: FindZoneID failed on the provider's answer, and the run
\* returned the failure with two operations called and two requests sent.
C7_Witness ==
    /\ pc = "returned"
    /\ outcome = "Failed"
    /\ last.op = "FindZoneID"
    /\ last.net.t = "resp"
    /\ last.res.err # NoErr
    /\ Len(calls) = 2
    /\ Len(reqs) = 2

\* A string that is empty or holds only spaces.
IsBlank(s) == \A i \in 1..Len(s) : s[i] = " "

\* The credentials of the run are one complete set and nothing of the other.
OneCredentialSet ==
    \/ cfg.apiToken # Empty /\ cfg.email = Empty /\ cfg.globalKey = Empty
    \/ cfg.apiToken = Empty /\ cfg.email # Empty /\ cfg.globalKey # Empty

\* The inputs C8 and C9 call invalid.
InvalidInputs ==
    \/ IsBlank(cfg.zone)
    \/ IsBlank(cfg.name)
    \/ cfg.ttl < 0
    \/ ~OneCredentialSet

\* C8: a run whose zone or label is blank, whose ttl is negative or whose
\* credentials are missing or conflicting never calls an operation and never
\* sends a request; it gets no further than the construction of the client,
\* and when it has ended it has failed.
C8_InvalidInputsSendNothing ==
    InvalidInputs
    => /\ calls = << >>
       /\ reqs = << >>
       /\ inflight = NoRequest
       /\ pc \in {"validate", "construct", "returned", "exited"}
       /\ Ended => outcome = "Failed" /\ runErr # NoErr

\* The case of C8: a run with a negative ttl and otherwise valid inputs has
\* returned its failure.
C8_Witness ==
    /\ pc = "returned"
    /\ cfg.ttl < 0
    /\ ~IsBlank(cfg.zone) /\ ~IsBlank(cfg.name) /\ OneCredentialSet
    /\ outcome = "Failed"
    /\ reqs = << >>

\* C9: the client of a run is constructed only from valid inputs; a run
\* with valid inputs gets to its first operation; a run with invalid inputs
\* fails with InvalidArgument; and the credentials validateInputs has
\* accepted are accepted by the construction step.
C9_ValidationMatchesConstruction ==
    /\ client # NoClient => ~InvalidInputs
    /\ (Ended /\ ~InvalidInputs) => calls # << >>
    /\ (Ended /\ InvalidInputs) => runErr.kind = "InvalidArgument"
    /\ pc = "construct"
       => constructClient(cfg.email, cfg.globalKey, cfg.apiToken).err = NoErr

\* C9 without its last part: validation and construction together accept
\* exactly the valid inputs and fail with InvalidArgument on the others.
C9_TogetherAcceptValid ==
    /\ client # NoClient => ~InvalidInputs
    /\ (Ended /\ ~InvalidInputs) => calls # << >>
    /\ (Ended /\ InvalidInputs) => runErr.kind = "InvalidArgument"

\* C11: every request an operation of the client has sent carries
\* Content-Type application/json and a non-empty User-Agent; in token mode
\* it carries Authorization "Bearer <token>" with the token given to New and
\* neither X-Auth-Email nor X-Auth-Key; in key mode it carries X-Auth-Email
\* and X-Auth-Key with the email and key given to New and no Authorization.
C11_AuthHeaders ==
    \A i \in 1..Len(reqs) :
        reqs[i].op # "Discover" =>
            LET h == reqs[i].header
            IN  /\ h.ContentType = <<"application/json">>
                /\ h.UserAgent # Empty
                /\ client.authMode \in {"AuthAPIToken", "AuthGlobalKey"}
                /\ client.authMode = "AuthAPIToken" =>
                      /\ lib.options.APIToken # Empty
                      /\ h.Authorization = <<"Bearer", " ">> \o lib.options.APIToken
                      /\ h.AuthEmail = Empty
                      /\ h.AuthKey = Empty
                /\ client.authMode = "AuthGlobalKey" =>
                      /\ h.AuthEmail = lib.options.Email /\ h.AuthEmail # Empty
                      /\ h.AuthKey = lib.options.GlobalKey /\ h.AuthKey # Empty
                      /\ h.Authorization = Empty

\* The case of C11: a request sent by a client in key mode with a user agent
\* of its own.
C11_Witness ==
    /\ Len(reqs) = 1
    /\ reqs[1].op = "GetARecord"
    /\ client.authMode = "AuthGlobalKey"
    /\ reqs[1].header.AuthKey = <<"key123">>
    /\ reqs[1].header.UserAgent = <<"ua/1">>

\* The arguments of a call pass the checks the operation makes before it
\* builds its request.
ArgsAccepted(call) ==
    CASE call.op = "FindZoneID"    -> call.name # Empty
      [] call.op = "GetARecord"    -> call.zoneID # Empty /\ call.name # Empty
      [] call.op = "UpdateARecord" -> call.zoneID # Empty /\ call.recordID # Empty
      [] call.op = "UpsertARecord" ->
            call.zoneID # Empty /\ call.payload.name # Empty /\ call.payload.content # Empty
      [] OTHER                     -> TRUE

\* C12: an operation called with a context that is already cancelled or past
\* its deadline sends no request and consumes no response; it has returned an
\* error, and when its arguments were accepted that error is the error of
\* the context.
C12_DoneContextSendsNothing ==
    \A i \in 1..Len(calls) :
        CtxDone(calls[i].ctx) =>
            /\ reqs = << >>
            /\ inflight = NoRequest
            /\ last.op = calls[i].op
            /\ last.net = NoNet
            /\ last.res.err # NoErr
            /\ ~last.res.found /\ last.res.str = Empty
            /\ ArgsAccepted(calls[i]) => last.res.err = CtxErr(calls[i].ctx)

\* The case of C12: CreateARecord called after the deadline has returned the
\* deadline's error.
C12_Witness ==
    /\ Len(calls) = 1
    /\ calls[1].op = "CreateARecord"
    /\ calls[1].ctx = "deadline"
    /\ last.op = "CreateARecord"
    /\ last.res.err = Err("DeadlineExceeded")

\* Text made of decimal digits and dots only.
OnlyDigitsAndDots(t) ==
    /\ t # Empty
    /\ \A i \in 1..Len(t) :
          t[i] \in {"0", "1", "2", "3", "4", "5", "6", "7", "8", "9", "."}

\* The echo service answered the discovery that returned last with a 2xx
\* response whose body could be read.
EchoAnswered ==
    /\ last.op = "Discover"
    /\ last.net.t = "resp"
    /\ ~Non2xx(last.net.status)
    /\ last.net.body.k = "text"

\* C13: on a 2xx response DiscoverIPv4ViaIpify has returned a value only for
\* a body that is dotted-decimal text, and that value is the body itself;
\* for every body that is anything else (empty, an IPv6 literal in any form,
\* other text) it has failed with InvalidResponse.
C13_OnlyDottedDecimal ==
    EchoAnswered =>
        /\ last.res.err = NoErr =>
              /\ OnlyDigitsAndDots(last.net.body.text)
              /\ last.res.str = last.net.body.text
        /\ ~OnlyDigitsAndDots(last.net.body.text) => last.res.err = Err("InvalidResponse")

\* C13 for the bodies without a colon: what remains of the property when
\* no IPv6 literal is answered.
C13_ExceptIPv6Text ==
    (EchoAnswered /\ \A i \in 1..Len(last.net.body.text) : last.net.body.text[i] # ":")
    => /\ last.res.err = NoErr =>
              /\ OnlyDigitsAndDots(last.net.body.text)
              /\ last.res.str = last.net.body.text
       /\ ~OnlyDigitsAndDots(last.net.body.text) => last.res.err = Err("InvalidResponse")

\* The provider answered the operation that returned last with a 2xx
\* response whose body decodes to an envelope with success = true.
SuccessAnswer ==
    /\ last.net.t = "resp"
    /\ ~Non2xx(last.net.status)
    /\ last.net.body.k = "json"
    /\ last.net.body.success

\* C14: FindZoneID answered 2xx with a successful envelope that lists at
\* least one zone has returned the id of the first zone and no error;
\* answered 2xx with an envelope whose list is empty it has failed with
\* NotFound.
C14_FirstZoneOrNotFound ==
    (last.op = "FindZoneID" /\ last.net.t = "resp" /\ ~Non2xx(last.net.status)
        /\ last.net.body.k = "json")
    => /\ (last.net.body.success /\ Len(last.net.body.result) >= 1)
          => last.res.err = NoErr /\ last.res.str = last.net.body.result[1].id
       /\ Len(last.net.body.result) = 0
          => last.res.err = Err("NotFound") /\ last.res.str = Empty

\* The case of C14: two zones were listed and the id of the first returned.
C14_Witness ==
    /\ last.op = "FindZoneID"
    /\ SuccessAnswer
    /\ Len(last.net.body.result) = 2
    /\ last.res.err = NoErr
    /\ last.res.str = <<"zid">>

\* C15: GetARecord answered 2xx with a successful envelope has returned no
\* error: the nil record when the list is empty, the listed record when
\* there is one.
C15_AbsentIsNotAnError ==
    (last.op = "GetARecord" /\ SuccessAnswer)
    => /\ last.res.err = NoErr
       /\ Len(last.net.body.result) = 0 => ~last.res.found /\ last.res.rec = NoRecord
       /\ Len(last.net.body.result) >= 1
          => last.res.found /\ last.res.rec = last.net.body.result[1]

\* The case of C15: the provider listed no record and GetARecord returned
\* the nil record without an error.
C15_Witness ==
    /\ last.op = "GetARecord"
    /\ SuccessAnswer
    /\ last.net.body.result = << >>
    /\ last.res.err = NoErr
    /\ ~last.res.found

\* C16: discovery and each operation of the client, answered with a status
\* outside 200..299, has returned the UpstreamStatus error of that status
\* and no value, whatever the body was.
C16_Non2xxIsUpstreamStatus ==
    (last.net.t = "resp" /\ (last.net.status < 200 \/ last.net.status > 299))
    => /\ last.res.err = [kind |-> "UpstreamStatus", status |-> last.net.status]
       /\ ~last.res.found
       /\ last.res.rec = NoRecord
       /\ last.res.str = Empty

\* The case of C16: an update answered 300 with a successful envelope that
\* holds the record has returned the status error.
C16_Witness ==
    /\ last.op = "UpdateARecord"
    /\ last.net.t = "resp"
    /\ last.net.status = 300
    /\ last.net.body.k = "json" /\ last.net.body.success
    /\ Len(last.net.body.result) = 1
    /\ last.res.err.kind = "UpstreamStatus"

\* C17: a run prints nothing before it ends.  A run that has ended with
\* exit status 0 has printed exactly one status line, for its fqdn and the
\* discovered address: "No change" with no write request sent, "Updated A"
\* with one Update request and no Create request sent and the Update
\* answered 2xx with success = true, "Created A" likewise for Create.  A run
\* that has ended with another exit status has an error, the outcome Failed
\* and has printed nothing.
C17_StatusMatchesMessage ==
    /\ ~Ended => msgs = << >>
    /\ Ended =>
         IF ExitStatus = 0
         THEN /\ Len(msgs) = 1
              /\ msgs[1].fqdn = cfg.name \o <<".">> \o cfg.zone
              /\ msgs[1].ip = wanIP
              /\ msgs[1].kind = outcome
              /\ msgs[1].kind \in {"NoOp", "Updated", "Created"}
              /\ msgs[1].kind = "NoOp" => WriteReqs = {}
              /\ msgs[1].kind = "Updated" =>
                    /\ Cardinality(ReqsOf("UpdateARecord")) = 1
                    /\ ReqsOf("CreateARecord") = {}
                    /\ last.op = "UpdateARecord" /\ SuccessAnswer
              /\ msgs[1].kind = "Created" =>
                    /\ Cardinality(ReqsOf("CreateARecord")) = 1
                    /\ ReqsOf("UpdateARecord") = {}
                    /\ last.op = "CreateARecord" /\ SuccessAnswer
         ELSE /\ msgs = << >>
              /\ runErr # NoErr
              /\ outcome = "Failed"

\* The case of C17: a process that printed "Created A" and exited with
\* status 0.
C17_Witness ==
    /\ pc = "exited"
    /\ ExitStatus = 0
    /\ Len(msgs) = 1
    /\ msgs[1].kind = "Created"

\* C18: when UpsertARecord, called with a non-empty zoneID, name and ip, has
\* returned without an error, the provider holds exactly one A record for
\* the name, and its content is the ip, whether or not it held a record
\* before.
C18_UpsertLeavesOneRecord ==
    (last.op = "UpsertARecord" /\ last.res.err = NoErr /\ Len(calls) = 1)
    => /\ Len(store) = 1
       /\ store[1].content = calls[1].payload.content

\* What does hold of UpsertARecord: when it has returned without an error
\* it sent one Create request, and the provider holds a new record with
\* the content of the call next to the records it held before.
C18_UpsertAlwaysCreates ==
    (last.op = "UpsertARecord" /\ last.res.err = NoErr /\ Len(calls) = 1)
    => /\ Len(reqs) = 1
       /\ reqs[1].method = "POST"
       /\ Len(store) >= 1
       /\ store[Len(store)].content = calls[1].payload.content

\* C19: FindZoneID called with an empty zone name, GetARecord with an empty
\* zoneID or fqdn, and UpdateARecord with an empty zoneID or recordID have
\* returned InvalidArgument, whatever the context, and have sent no
\* request.
C19_EmptyArgumentsRefused ==
    \A i \in 1..Len(calls) :
        LET call == calls[i]
            bad  == \/ call.op = "FindZoneID" /\ call.name = Empty
                    \/ call.op = "GetARecord" /\ (call.zoneID = Empty \/ call.name = Empty)
                    \/ call.op = "UpdateARecord"
                          /\ (call.zoneID = Empty \/ call.recordID = Empty)
        IN  bad => /\ reqs = << >>
                   /\ inflight = NoRequest
                   /\ last.op = call.op
                   /\ last.net = NoNet
                   /\ last.res.err = Err("InvalidArgument")
                   /\ ~last.res.found /\ last.res.str = Empty

\* The case of C19: GetARecord called with a zone id and an empty fqdn under
\* a live context has returned InvalidArgument.
C19_Witness ==
    /\ Len(calls) = 1
    /\ calls[1].op = "GetARecord"
    /\ calls[1].zoneID # Empty
    /\ calls[1].name = Empty
    /\ calls[1].ctx = "live"
    /\ last.res.err = Err("InvalidArgument")

\* The steps of one run; the step to the next invocation starts afresh.
RunReturns == pc \notin {"returned", "exited"} /\ pc' = "returned"

C21_NoListenerAfterReturn ==
    pc \in {"returned", "exited"} => listener # "running"

\* C21: the listener leaves its select either on a signal, cancelling the
\* context of the run and nothing else, or on the context being done,
\* changing nothing; once run has returned the context is done and the
\* listener is able to exit; and it does exit unless the process ends first.
C21_ListenerExits ==
    /\ [][(listener = "running" /\ listener' # "running" /\ pc # "exited")
            => /\ listener' = "exited"
               /\ \/ sigch = 1 /\ sigch' = 0 /\ CtxDone(ctx')
                     /\ (ctx = "live" => ctx' = "canceled")
                     /\ (ctx # "live" => ctx' = ctx)
                  \/ CtxDone(ctx) /\ UNCHANGED <<ctx, sigch>>
               /\ UNCHANGED <<cfg, pc, client, wanIP, zoneID, rec, outcome, runErr,
                              msgs, inflight, calls, reqs, last, open, store, runNo,
                              prev, lib>>]_vars
    /\ []((pc = "returned" /\ listener = "running")
            => CtxDone(ctx) /\ ENABLED ListenerOnDone)
    /\ []((listener = "running" /\ sigch = 1 /\ pc # "exited") => ENABLED ListenerOnSignal)
    /\ (listener = "running") ~> (listener = "exited" \/ pc = "exited")

\* The case of C21: run returned without a signal or a deadline and the
\* listener exited on the deferred cancel.
C21_Witness ==
    /\ pc = "returned"
    /\ outcome = "NoOp"
    /\ ctx = "canceled"
    /\ sigch = 0
    /\ listener = "exited"

Outcomes == {"NoOp", "Updated", "Created", "Failed"}

\* C22: every run returns, provided each network call returns; it has no
\* outcome before it returns and exactly one of NoOp, Updated, Created and
\* Failed from then on, which never changes; success comes without an error
\* and Failed with one.
C22_OneTerminalOutcome ==
    /\ (pc \notin {"returned", "exited"}) ~> (pc = "returned")
    /\ [](IF pc \in {"returned", "exited"}
          THEN /\ outcome \in Outcomes
               /\ (outcome = "Failed" <=> runErr # NoErr)
               /\ inflight = NoRequest
          ELSE outcome = "none" /\ runErr = NoErr)
    /\ [][(outcome # "none" /\ pc # "exited")
            => (outcome' = outcome /\ runErr' = runErr /\ pc' \in {"returned", "exited"})]_vars

\* The case of C22: a second invocation has ended with an update after its
\* four network calls returned.
C22_Witness ==
    /\ runNo = 2
    /\ pc = "exited"
    /\ outcome = "Updated"
    /\ Len(reqs) = 4

\* The operation whose request a call sends.
RequestOp(op) == IF op = "UpsertARecord" THEN "CreateARecord" ELSE op

\* C23: within a run no operation is called twice and no call sends more
\* than one request: at most one request goes to the echo service, one is a
\* zone lookup, one a record lookup and one a write, each to its own call.
C23_NoRetries ==
    /\ \A op \in {"Discover", "FindZoneID", "GetARecord", "UpdateARecord", "CreateARecord"} :
          /\ Cardinality(CallsOf(op)) <= 1
          /\ Cardinality(ReqsOf(op)) <= Cardinality(CallsOf(op))
    /\ Cardinality(WriteReqs) <= 1
    /\ Len(reqs) <= Len(calls)
    /\ inflight # NoRequest => (reqs # << >> /\ inflight = reqs[Len(reqs)])

\* A call of the library, discovery and UpsertARecord included, has sent at
\* most one request, that of its own operation.
C23_OneRequestPerCall ==
    /\ Len(reqs) <= 1
    /\ Len(calls) <= 1
    /\ reqs # << >> => (calls # << >> /\ reqs[1].op = RequestOp(calls[1].op))

\* The case of C23: the transport failed on the zone lookup and the run
\* returned the error after that one request.
C23_Witness ==
    /\ pc = "returned"
    /\ last.op = "FindZoneID"
    /\ last.net = NetErr(Err("TransportError"))
    /\ runErr = Err("TransportError")
    /\ Cardinality(ReqsOf("FindZoneID")) = 1
    /\ Len(reqs) = 2

\* C24: no response body is open between calls: discovery and every client
\* operation that was answered with a response has closed its body when it
\* returns, whatever the status and the body were and whatever it returned.
C24_BodiesClosed ==
    /\ open = 0
    /\ last.net.t = "resp" => last.res.closed
    /\ last.net.t # "resp" => ~last.res.closed

\* The case of C24: the second call of the caller, a discovery, was answered
\* with a body that could not be read; it returned the error with the body
\* closed.
C24_Witness ==
    /\ lib.ncalls = 2
    /\ last.op = "Discover"
    /\ last.net.t = "resp"
    /\ last.net.body = ReadErrBody
    /\ last.res.err # NoErr
    /\ last.res.closed
    /\ open = 0

\* C25: while the Create request of a run is in flight, the record lookup
\* before it was answered 2xx with success = true and an empty result list.
C25_CreateOnlyAfterEmptyLookup ==
    pc = "create_wait" =>
        /\ last.op = "GetARecord"
        /\ SuccessAnswer
        /\ last.net.body.result = << >>

\* What the run guarantees instead: the lookup before a Create returned no
\* error and no record, on a 2xx answer whose envelope had an empty result
\* list or success = false.
C25_CreateOnlyAfterAbsentResult ==
    pc = "create_wait" =>
        /\ last.op = "GetARecord"
        /\ last.res.err = NoErr /\ ~last.res.found
        /\ last.net.t = "resp" /\ ~Non2xx(last.net.status) /\ last.net.body.k = "json"
        /\ (~last.net.body.success \/ last.net.body.result = << >>)

\* C26: a run whose lookup returned a record with the discovered address as
\* its content, and a ttl or a proxied value other than the configured one,
\* goes from the comparison straight to the NoOp return and has sent no
\* write.
C26_ContentAloneDecides ==
    (LookupSame /\ (rec.rec.ttl # cfg.ttl \/ rec.rec.proxied # cfg.proxied))
    => /\ pc \in {"decide", "returned", "exited"}
       /\ WriteReqs = {} /\ WriteCalls = {}
       /\ Ended => (outcome = "NoOp" /\ runErr = NoErr /\ Len(msgs) = 1
                    /\ msgs[1].kind = "NoOp")

\* The case of C26: the record held ttl 300 and proxied = TRUE, the run was
\* configured otherwise, and it ended with the no-op.
C26_Witness ==
    /\ pc = "returned"
    /\ LookupSame
    /\ rec.rec.proxied /\ ~cfg.proxied
    /\ outcome = "NoOp"
    /\ reqs # << >>

\* C27: every write request of a run belongs to a call that names a zone id,
\* and every Update request to one that names a record id, which is the id
\* at the end of its URL.  A run whose zone lookup returned an empty id has
\* failed with InvalidArgument in GetARecord, and one whose record lookup
\* returned a record with an empty id and another content has failed with
\* InvalidArgument in UpdateARecord, both without a write request.
C27_WritesNameZoneAndRecord ==
    /\ \A i \in 1..Len(calls) :
          (calls[i].op \in WriteOps /\ WriteReqs # {})
          => /\ calls[i].zoneID # Empty
             /\ calls[i].zoneID = zoneID
             /\ calls[i].op = "UpdateARecord"
                   => /\ calls[i].recordID # Empty
                      /\ \A j \in WriteReqs : LastElem(reqs[j].url) = calls[i].recordID
    /\ (CallsOf("GetARecord") # {} /\ zoneID = Empty)
          => /\ Ended /\ outcome = "Failed" /\ runErr = Err("InvalidArgument")
             /\ last.op = "GetARecord" /\ last.net = NoNet
             /\ ReqsOf("GetARecord") = {} /\ WriteReqs = {}
    /\ (Ended /\ LookupDiffers /\ rec.rec.id = Empty)
          => /\ outcome = "Failed" /\ runErr = Err("InvalidArgument")
             /\ last.op = "UpdateARecord" /\ last.net = NoNet
             /\ WriteReqs = {}

\* The case of C27: the provider listed the zone without an id and the run
\* failed in GetARecord after its two requests.
C27_Witness ==
    /\ pc = "returned"
    /\ zoneID = Empty
    /\ last.op = "GetARecord"
    /\ runErr = Err("InvalidArgument")
    /\ Len(reqs) = 2

\* C28: the client of the caller is the one New returned, whatever
\* operations were called on it since; its mode is one of the two variants
\* and the credentials of that variant are not empty; and no operation on it
\* has returned MissingCredential or UnknownAuthMode.
C28_CredentialsStayComplete ==
    /\ client # NoClient
          => /\ lib.pc # "new" /\ lib.err = NoErr
             /\ client = New(lib.options).c
             /\ client.authMode \in {"AuthGlobalKey", "AuthAPIToken"}
             /\ client.authMode = "AuthGlobalKey"
                   => (client.email # Empty /\ client.globalKey # Empty)
             /\ client.authMode = "AuthAPIToken" => client.apiToken # Empty
    /\ last.res.err \notin {Err("MissingCredential"), Err("UnknownAuthMode")}
    /\ (client = NoClient /\ calls # << >>) => calls[1].op = "Discover"

\* The case of C28: the second operation on a client in global-key mode has
\* returned without an error.
C28_Witness ==
    /\ client.authMode = "AuthGlobalKey"
    /\ lib.ncalls = 2
    /\ last.op = "UpdateARecord"
    /\ last.res.err = NoErr

====
